---- MODULE Spec2Model ----
(***************************************************************************)
(* A model of the evaluation runtime of starlark-rust:                     *)
(*   starlark/src/eval/runtime/evaluator.rs   (struct Evaluator)           *)
(* The Evaluator's fields are the variables.  with_call_stack and          *)
(* with_function_context take a closure `within` that runs with the        *)
(* Evaluator borrowed mutably; the Rust activation records of the          *)
(* invocations that are still open are kept in `ctl`, and `within` is any  *)
(* sequence of Evaluator operations followed by a return.                  *)
(* The second part models the client side of the LSP test server:          *)
(*   starlark/src/lsp/test.rs                 (struct TestServer)          *)
(* with the channel from the server thread as a queue of messages.         *)
(***************************************************************************)
EXTENDS Integers, Sequences, FiniteSets, TLC

\* ---------------------------------------------------------------- bounds
\* Most messages in the channel from the server at a time, and most
\* notifications the server sends.
MaxInFlight == 1
MaxNotifications == 2
\* get_notification: `for _ in 0..10`
GetNotificationRetries == 10
\* Deepest nesting of open with_call_stack / with_function_context
\* invocations that is explored.
MaxNest == 3
\* The recursion limit of CallStack::push, scaled down.
MAX_CALLSTACK_RECURSION == 2
\* Slot tables have NumModuleSlots module slots and NumLocalSlots local slots.
NumModuleSlots == 2
NumLocalSlots == 1
\* Values written by the program are 1..MaxValue.
MaxValue == 2
\* Heap allocation is explored in chunks of AllocChunk bytes, up to
\* MaxChunks chunks.
MaxChunks == 3
\* Most profile records on the heap before further calls are cut off.
MaxRecords == 4
\* Most hooks in before_stmt.
MaxHooks == 2
\* Most frames of local slots on the stack of LocalSlots.
MaxLocalFrames == 2

\* ------------------------------------------------------------- constants
GC_THRESHOLD == 100000
AllocChunk == GC_THRESHOLD \div 2

\* ------------------------------------------------------------ data types
None == [tag |-> "None"]
Some(x) == [tag |-> "Some", val |-> x]

\* A Value: a number, and whether it is a pointer to the frozen heap.
Value_new(n) == [v |-> n, frozen |-> FALSE]
FrozenValue(n) == [fv |-> n]
Value_new_frozen(x) == [v |-> x.fv, frozen |-> TRUE]

Functions == {"f", "g"}
\* The placeholder codemap of Evaluator::new, and the codemaps of two files.
CODEMAP == "CODEMAP"
CodeMaps == {"a.bzl", "b.bzl"}
Spans == {1}
ModuleSlotIds == 0 .. (NumModuleSlots - 1)
LocalSlotIds == 0 .. (NumLocalSlots - 1)
Values == {Value_new(n) : n \in 1 .. MaxValue}

\* One loaded frozen module.  Its slot 0 is assigned, every other slot is
\* not; the values of a frozen module are distinct from the values the
\* program writes.
FrozenModules == {"lib"}
FrozenModule_get_slot(e, slot) ==
    IF slot = 0 THEN Some(FrozenValue(10 + slot)) ELSE None
\* Its name table names slots 0 and 1 (a variable the module declares and
\* never assigns has a name), and no other.
FrozenModule_get_slot_name(e, slot) ==
    IF slot = 0 THEN Some("lib_x") ELSE IF slot = 1 THEN Some("lib_y") ELSE None
\* The name table of the bound module: slot 0 is named, the others are not.
Module_names_get_slot(slot) ==
    IF slot = 0 THEN Some("x") ELSE None

\* Results of operations: anyhow::Result<R>.
Unit == [tag |-> "Unit"]
Ok(x) == [tag |-> "Ok", val |-> x]
\* An error is a Diagnostic-to-be: the underlying error and the call stack
\* attached to it (empty: none attached yet).
Err(e, cs) == [tag |-> "Err", error |-> e, call_stack |-> cs]
Pending == [tag |-> "Pending"]
NoRet == [tag |-> "NoRet"]
NoOp == [name |-> "none"]

EvaluatorError_ProfilingNotEnabled == [err |-> "ProfilingNotEnabled"]
EvaluatorError_StmtProfilingNotEnabled == [err |-> "StmtProfilingNotEnabled"]
LocalVariableReferencedBeforeAssignment(name) ==
    [err |-> "LocalVariableReferencedBeforeAssignment", name |-> name]
StackOverflow == [err |-> "StackOverflow"]
\* An error raised by the code that `within` runs.
UserError == [err |-> "UserError"]

\* ----------------------------------------------------------------- state
VARIABLES
    module_env,         \* the slots of the bound Module
    module_variables,   \* Option<FrozenModuleRef>
    local_variables,    \* LocalSlots: a stack of frames of local slots
    call_stack,         \* CallStack: the frames, outermost first
    codemap,            \* the active codemap
    profiling,          \* bool
    disable_gc,         \* bool
    next_gc_level,      \* usize
    stmt_profile,       \* StmtProfile: enabled, and the codemap it was given
    before_stmt,        \* how many hooks before_stmt holds
    loader,             \* Option<&mut dyn FileLoader>
    extra_v,            \* Option<&dyn AnyLifetime<'v>>: a value the host keeps here
    allocated_bytes,    \* heap().allocated_bytes()
    heap_records,       \* the call-enter / call-exit records on the heap
    ctl,                \* the activation records of the open with_call_stack /
                        \* with_function_context invocations, outermost first
    ret,                \* what the last operation returned to the running code
                        \* (NoRet: the running code has called nothing yet)
    last_op,            \* that operation and its arguments
    profile_start,      \* the call depth at which profiling was switched on
                        \* (None: it has not been)
    receiver,           \* TestServer: the messages the server has sent and
                        \* client_connection.receiver has not yet given out
    responses,          \* TestServer: HashMap<RequestId, Response>
    notifications,      \* TestServer: VecDeque<Notification>
    client,             \* TestServer: where the test's thread is (idle, or in
                        \* the loop of get_response)
    sent,               \* everything client_connection.sender has sent, in order
    connected,          \* the server's end of the connection is open
    req_counter,        \* TestServer: i32
    initialize_response,\* TestServer: Option<InitializeResult>
    server_thread,      \* TestServer: Option<JoinHandle<()>>
    joins               \* how often the server thread was joined

vars == << module_env, module_variables, local_variables, call_stack, codemap,
           profiling, disable_gc, next_gc_level, stmt_profile, before_stmt,
           allocated_bytes,
           heap_records, ctl, ret, last_op, loader, extra_v, profile_start,
           receiver, responses, notifications, client,
           sent, connected, req_counter, initialize_response, server_thread, joins >>

slot_vars == << module_env, local_variables >>
gc_vars == << disable_gc, next_gc_level, allocated_bytes >>
profile_vars == << profiling, stmt_profile, heap_records >>
context_vars == << module_variables, codemap >>
host_vars == << loader, extra_v >>
session_vars == << sent, connected, req_counter, initialize_response,
                  server_thread, joins >>
lsp_vars == << receiver, responses, notifications, client, session_vars >>
evaluator_vars == << module_env, module_variables, local_variables, call_stack,
                     codemap, profiling, disable_gc, next_gc_level, stmt_profile,
                     before_stmt, allocated_bytes, heap_records, ctl, loader,
                     extra_v, profile_start >>

\* The request ids and notification methods of the messages that are explored.
RequestIds == {1, 2}
Methods == {"publishDiagnostics", "logMessage"}
\* TestServer::new_with_settings: the fields of the struct it builds.
TestServer_fields ==
    /\ receiver = << >>
    /\ responses = [id \in RequestIds |-> None]
    /\ notifications = << >>
    /\ sent = << >>
    /\ connected = TRUE
    /\ req_counter = 0
    /\ initialize_response = None
    /\ server_thread = Some("JoinHandle")
    /\ joins = 0
TestServer_new ==
    /\ TestServer_fields
    /\ client = [op |-> "idle"]

\* A slip: the watermark starts at zero, so that the first checkpoint collects.
Init_watermark_zero ==
    /\ module_env = [s \in ModuleSlotIds |-> None]
    /\ module_variables = None
    /\ local_variables = << [s \in LocalSlotIds |-> None] >>
    /\ call_stack = << >>
    /\ codemap = CODEMAP
    /\ profiling = FALSE
    /\ disable_gc = FALSE
    /\ next_gc_level = 0
    /\ stmt_profile = [enabled |-> FALSE, codemap |-> None]
    /\ before_stmt = 0
    /\ allocated_bytes = 0
    /\ heap_records = << >>
    /\ ctl = << >>
    /\ ret = NoRet
    /\ last_op = NoOp
    /\ loader = None
    /\ extra_v = None
    /\ profile_start = None
    /\ TestServer_new

\* Evaluator::new: the fields of a fresh evaluator.
Evaluator_new ==
    /\ module_env = [s \in ModuleSlotIds |-> None]
    /\ module_variables = None
    /\ local_variables = << [s \in LocalSlotIds |-> None] >>
    /\ call_stack = << >>
    /\ codemap = CODEMAP
    /\ profiling = FALSE
    /\ disable_gc = FALSE
    /\ next_gc_level = GC_THRESHOLD
    /\ stmt_profile = [enabled |-> FALSE, codemap |-> None]
    /\ before_stmt = 0
    /\ allocated_bytes = 0
    /\ heap_records = << >>
    /\ ctl = << >>
    /\ ret = NoRet
    /\ last_op = NoOp
    /\ loader = None
    /\ extra_v = None
    /\ profile_start = None

\* A fresh evaluator, and a test client of the language server.
Init ==
    /\ Evaluator_new
    /\ TestServer_new
\* new_with_settings has built the struct and calls initialize on it.
InitSession ==
    /\ Evaluator_new
    /\ TestServer_fields
    /\ client = [op |-> "initialize", pc |-> "send_request"]

\* Code of the host or of `within` is running: no open invocation is waiting
\* to finish.
Running == IF ctl = << >> THEN TRUE ELSE ctl[Len(ctl)].res = Pending
Top == ctl[Len(ctl)]
Pop(s) == SubSeq(s, 1, Len(s) - 1)
RECURSIVE Reverse(_)
Reverse(s) == IF s = << >> THEN << >> ELSE Append(Reverse(Tail(s)), Head(s))

\* ------------------------------------------------------------ call stack
\* CallStack::push: the frame, or the stack-overflow failure.
CallStack_push_fails(cs) == Len(cs) >= MAX_CALLSTACK_RECURSION
CallStack_push(cs, function, span, cm) ==
    Append(cs, [function |-> function, span |-> span, codemap |-> cm])
CallStack_pop(cs) == Pop(cs)
\* CallStack::to_diagnostic_frames: the frames, innermost first.
to_diagnostic_frames(cs) ==
    Reverse([i \in 1 .. Len(cs) |->
        [name |-> cs[i].function,
         location |-> IF cs[i].codemap = None THEN None
                      ELSE Some(<< cs[i].codemap.val, cs[i].span >>)]])

\* Diagnostic::set_call_stack: sets the call stack unless one is set already.
set_call_stack(d, frames) ==
    IF d.call_stack = << >> THEN [d EXCEPT !.call_stack = frames] ELSE d
\* A slip: the frames are captured after the frame of the call was popped.
add_diagnostics_after_pop(e, cs) == set_call_stack(e, to_diagnostic_frames(Pop(cs)))
\* A slip: the call stack is assigned, whether or not one is attached already.
add_diagnostics_overwrite(e, cs) == [e EXCEPT !.call_stack = to_diagnostic_frames(cs)]
\* add_diagnostics, inside with_call_stack
add_diagnostics(e, cs) == set_call_stack(e, to_diagnostic_frames(cs))
\* Result::map_err(|e| add_diagnostics(e, self))
map_err_add_diagnostics(res, cs) ==
    IF res.tag = "Err" THEN add_diagnostics(res, cs) ELSE res

\* A slip: the export turns the frames round.
Evaluator_call_stack_turned ==
    /\ Running
    /\ ret' = Ok([frames |-> Reverse(to_diagnostic_frames(call_stack))])
    /\ last_op' = [name |-> "call_stack"]
    /\ UNCHANGED << lsp_vars, host_vars, profile_start, before_stmt, slot_vars, context_vars,
                    gc_vars, profile_vars, call_stack, ctl >>

\* Evaluator::call_stack: the frames as to_diagnostic_frames gives them.
Evaluator_call_stack ==
    /\ Running
    /\ ret' = Ok([frames |-> to_diagnostic_frames(call_stack)])
    /\ last_op' = [name |-> "call_stack"]
    /\ UNCHANGED << lsp_vars, host_vars, profile_start, before_stmt, slot_vars, context_vars,
                    gc_vars, profile_vars, call_stack, ctl >>

\* A slip: the enter event is recorded before the push is tried.
with_call_stack_enter_records_first(function, span) ==
    /\ Running
    /\ Len(ctl) < MaxNest
    /\ Len(heap_records) < MaxRecords
    /\ heap_records' = IF profiling
                       THEN Append(heap_records, [rec |-> "enter", function |-> function])
                       ELSE heap_records
    /\ IF CallStack_push_fails(call_stack)
       THEN /\ ret' = Err(StackOverflow, << >>)
            /\ last_op' = [name |-> "with_call_stack", function |-> function]
            /\ UNCHANGED << call_stack, ctl >>
       ELSE /\ call_stack' = CallStack_push(call_stack, function,
                    IF span = None THEN 0 ELSE span.val,
                    IF span = None THEN None ELSE Some(codemap))
            /\ ctl' = Append(ctl, [kind |-> "call", function |-> function,
                                   span |-> span, res |-> Pending])
            /\ ret' = NoRet
            /\ last_op' = NoOp
    /\ UNCHANGED << lsp_vars, host_vars, profile_start, before_stmt, slot_vars,
                    context_vars, gc_vars, profiling, stmt_profile >>

\* with_call_stack up to the invocation of `within`
with_call_stack_enter(function, span) ==
    /\ Running
    /\ Len(ctl) < MaxNest
    /\ Len(heap_records) < MaxRecords
    /\ IF CallStack_push_fails(call_stack)
       THEN /\ ret' = Err(StackOverflow, << >>)
            /\ last_op' = [name |-> "with_call_stack", function |-> function]
            /\ UNCHANGED << call_stack, heap_records, ctl >>
       ELSE /\ call_stack' = CallStack_push(call_stack, function,
                    IF span = None THEN 0 ELSE span.val,
                    IF span = None THEN None ELSE Some(codemap))
            /\ heap_records' = IF profiling
                               THEN Append(heap_records, [rec |-> "enter", function |-> function])
                               ELSE heap_records
            /\ ctl' = Append(ctl, [kind |-> "call", function |-> function,
                                   span |-> span, res |-> Pending])
            /\ ret' = NoRet
            /\ last_op' = NoOp
    /\ UNCHANGED << lsp_vars, host_vars, profile_start, before_stmt, slot_vars,
                    context_vars, gc_vars, profiling, stmt_profile >>

\* `within` returns r to the invocation that called it.
within_return(r) ==
    /\ ctl # << >>
    /\ Top.res = Pending
    /\ ctl' = [ctl EXCEPT ![Len(ctl)].res = r]
    /\ UNCHANGED << lsp_vars, host_vars, profile_start, before_stmt, slot_vars,
                    context_vars, gc_vars, profile_vars, call_stack,
                    ret, last_op >>

\* What `within` can return: a value, an error of its own, or the error the
\* operation before gave it (the `?` operator).
WithinResults(V) ==
    {Ok(v) : v \in V} \cup {Err(UserError, << >>)}
        \cup (IF ret.tag = "Err" THEN {ret} ELSE {})

\* A slip: `within(self)?` returns early on a failure, before the pop.
with_call_stack_exit_early_return ==
    /\ ctl # << >>
    /\ Top.kind = "call"
    /\ Top.res # Pending
    /\ ret' = map_err_add_diagnostics(Top.res, call_stack)
    /\ last_op' = [name |-> "with_call_stack", function |-> Top.function]
    /\ call_stack' = IF Top.res.tag = "Err" THEN call_stack ELSE CallStack_pop(call_stack)
    /\ heap_records' = IF profiling /\ Top.res.tag # "Err"
                       THEN Append(heap_records, [rec |-> "exit"])
                       ELSE heap_records
    /\ ctl' = Pop(ctl)
    /\ UNCHANGED << lsp_vars, host_vars, profile_start, before_stmt, slot_vars,
                    context_vars, gc_vars, profiling, stmt_profile >>

\* A slip: the exit event is recorded only when `within` succeeded.
with_call_stack_exit_unrecorded_failure ==
    /\ ctl # << >>
    /\ Top.kind = "call"
    /\ Top.res # Pending
    /\ ret' = map_err_add_diagnostics(Top.res, call_stack)
    /\ last_op' = [name |-> "with_call_stack", function |-> Top.function]
    /\ call_stack' = CallStack_pop(call_stack)
    /\ heap_records' = IF profiling /\ Top.res.tag # "Err"
                       THEN Append(heap_records, [rec |-> "exit"])
                       ELSE heap_records
    /\ ctl' = Pop(ctl)
    /\ UNCHANGED << lsp_vars, host_vars, profile_start, before_stmt, slot_vars,
                    context_vars, gc_vars, profiling, stmt_profile >>

\* A slip: the value `within` produced is dropped on the way out.
with_call_stack_exit_drops_value ==
    /\ ctl # << >>
    /\ Top.kind = "call"
    /\ Top.res # Pending
    /\ ret' = IF Top.res.tag = "Ok" THEN Ok(Unit)
              ELSE map_err_add_diagnostics(Top.res, call_stack)
    /\ last_op' = [name |-> "with_call_stack", function |-> Top.function]
    /\ call_stack' = CallStack_pop(call_stack)
    /\ heap_records' = IF profiling
                       THEN Append(heap_records, [rec |-> "exit"])
                       ELSE heap_records
    /\ ctl' = Pop(ctl)
    /\ UNCHANGED << lsp_vars, host_vars, profile_start, before_stmt, slot_vars,
                    context_vars, gc_vars, profiling, stmt_profile >>

\* with_call_stack after `within` has returned
with_call_stack_exit ==
    /\ ctl # << >>
    /\ Top.kind = "call"
    /\ Top.res # Pending
    /\ ret' = map_err_add_diagnostics(Top.res, call_stack)
    /\ last_op' = [name |-> "with_call_stack", function |-> Top.function]
    /\ call_stack' = CallStack_pop(call_stack)
    /\ heap_records' = IF profiling
                       THEN Append(heap_records, [rec |-> "exit"])
                       ELSE heap_records
    /\ ctl' = Pop(ctl)
    /\ UNCHANGED << lsp_vars, host_vars, profile_start, before_stmt, slot_vars,
                    context_vars, gc_vars, profiling, stmt_profile >>

\* ------------------------------------------------------ function context
\* StmtProfile::set_codemap
StmtProfile_set_codemap(sp, cm) ==
    IF sp.enabled THEN [sp EXCEPT !.codemap = Some(cm)] ELSE sp

\* A slip: a callee of the top module inherits the override of its caller.
with_function_context_enter_inherits(module, cm) ==
    /\ Running
    /\ Len(ctl) < MaxNest
    /\ stmt_profile' = StmtProfile_set_codemap(stmt_profile, cm)
    /\ codemap' = cm
    /\ module_variables' = IF module = None THEN module_variables ELSE module
    /\ ctl' = Append(ctl, [kind |-> "ctx", module |-> module, codemap |-> cm,
                           old_codemap |-> codemap,
                           old_module_variables |-> module_variables,
                           res |-> Pending])
    /\ ret' = NoRet
    /\ last_op' = NoOp
    /\ UNCHANGED << lsp_vars, host_vars, profile_start, before_stmt, slot_vars,
                    gc_vars, profiling, heap_records, call_stack >>

\* with_function_context up to the invocation of `within`
with_function_context_enter(module, cm) ==
    /\ Running
    /\ Len(ctl) < MaxNest
    /\ stmt_profile' = StmtProfile_set_codemap(stmt_profile, cm)
    /\ codemap' = cm
    /\ module_variables' = module
    /\ ctl' = Append(ctl, [kind |-> "ctx", module |-> module, codemap |-> cm,
                           old_codemap |-> codemap,
                           old_module_variables |-> module_variables,
                           res |-> Pending])
    /\ ret' = NoRet
    /\ last_op' = NoOp
    /\ UNCHANGED << lsp_vars, host_vars, profile_start, before_stmt, slot_vars,
                    gc_vars, profiling, heap_records, call_stack >>

\* A slip: the saved values are put back on the success path only.
with_function_context_exit_early_return ==
    /\ ctl # << >>
    /\ Top.kind = "ctx"
    /\ Top.res # Pending
    /\ stmt_profile' = IF Top.res.tag = "Err" THEN stmt_profile
                       ELSE StmtProfile_set_codemap(stmt_profile, Top.old_codemap)
    /\ codemap' = IF Top.res.tag = "Err" THEN codemap ELSE Top.old_codemap
    /\ module_variables' = IF Top.res.tag = "Err" THEN module_variables
                           ELSE Top.old_module_variables
    /\ ret' = Top.res
    /\ last_op' = [name |-> "with_function_context", codemap |-> Top.codemap]
    /\ ctl' = Pop(ctl)
    /\ UNCHANGED << lsp_vars, host_vars, profile_start, before_stmt, slot_vars,
                    gc_vars, profiling, heap_records, call_stack >>

\* with_function_context after `within` has returned
with_function_context_exit ==
    /\ ctl # << >>
    /\ Top.kind = "ctx"
    /\ Top.res # Pending
    /\ stmt_profile' = StmtProfile_set_codemap(stmt_profile, Top.old_codemap)
    /\ codemap' = Top.old_codemap
    /\ module_variables' = Top.old_module_variables
    /\ ret' = Top.res
    /\ last_op' = [name |-> "with_function_context", codemap |-> Top.codemap]
    /\ ctl' = Pop(ctl)
    /\ UNCHANGED << lsp_vars, host_vars, profile_start, before_stmt, slot_vars,
                    gc_vars, profiling, heap_records, call_stack >>

\* ----------------------------------------------------------------- slots
\* Option::ok_or_else
ok_or_else(o, e) == IF o = None THEN Err(e, << >>) ELSE Ok(o.val)
\* Option::unwrap_or_else
unwrap_or_else(o, d) == IF o = None THEN d ELSE o.val
\* Option::map(Value::new_frozen)
map_new_frozen(o) == IF o = None THEN None ELSE Some(Value_new_frozen(o.val))

\* A slip: the name is always looked up in the bound module's table.
get_slot_module_error_bound_names(slot) ==
    LocalVariableReferencedBeforeAssignment(
        unwrap_or_else(Module_names_get_slot(slot), "<unknown>"))

\* The error path of get_slot_module: the name is looked up here only.
get_slot_module_error(slot) ==
    LocalVariableReferencedBeforeAssignment(
        unwrap_or_else(
            IF module_variables = None
            THEN Module_names_get_slot(slot)
            ELSE FrozenModule_get_slot_name(module_variables.val, slot),
            "<unknown>"))

\* A slip: an unassigned slot reads as a default value.
get_slot_module_result_default(slot) ==
    Ok(unwrap_or_else(
        IF module_variables = None
        THEN module_env[slot]
        ELSE map_new_frozen(FrozenModule_get_slot(module_variables.val, slot)),
        Value_new(0)))
\* A slip: a slot the frozen module has not assigned is read from the bound
\* module.
get_slot_module_result_fallback(slot) ==
    ok_or_else(
        IF module_variables = None
        THEN module_env[slot]
        ELSE IF FrozenModule_get_slot(module_variables.val, slot) = None
             THEN module_env[slot]
             ELSE map_new_frozen(FrozenModule_get_slot(module_variables.val, slot)),
        get_slot_module_error(slot))
\* What get_slot_module returns.
get_slot_module_result(slot) ==
    ok_or_else(
        IF module_variables = None
        THEN module_env[slot]
        ELSE map_new_frozen(FrozenModule_get_slot(module_variables.val, slot)),
        get_slot_module_error(slot))

get_slot_module(slot) ==
    /\ Running
    /\ ret' = get_slot_module_result(slot)
    /\ last_op' = [name |-> "get_slot_module", slot |-> slot]
    /\ UNCHANGED << lsp_vars, host_vars, profile_start, before_stmt, slot_vars,
                    context_vars, gc_vars, profile_vars, call_stack, ctl >>

\* LocalSlots::get_slot and LocalSlots::set_slot work on the top frame.
LocalSlots_get_slot(ls, slot) == ls[Len(ls)][slot]
LocalSlots_set_slot(ls, slot, value) ==
    [ls EXCEPT ![Len(ls)] = [@ EXCEPT ![slot] = Some(value)]]

get_slot_local(slot, name) ==
    /\ Running
    /\ ret' = ok_or_else(LocalSlots_get_slot(local_variables, slot),
                         LocalVariableReferencedBeforeAssignment(name))
    /\ last_op' = [name |-> "get_slot_local", slot |-> slot]
    /\ UNCHANGED << lsp_vars, host_vars, profile_start, before_stmt, slot_vars,
                    context_vars, gc_vars, profile_vars, call_stack, ctl >>

\* Module::set for a name the module has: the slot of that name is assigned.
Module_slot_of(name) == CHOOSE s \in ModuleSlotIds : Module_names_get_slot(s) = Some(name)
Module_set(env, name, value) == [env EXCEPT ![Module_slot_of(name)] = Some(value)]

\* set_module_variable_at_some_point, for a top-level name of the bound module
set_module_variable_at_some_point(name, value) ==
    /\ Running
    /\ module_env' = Module_set(module_env, name, value)
    /\ ret' = Ok(Unit)
    /\ last_op' = [name |-> "set_module_variable_at_some_point",
                   slot |-> Module_slot_of(name)]
    /\ UNCHANGED << lsp_vars, host_vars, profile_start, before_stmt, local_variables,
                    context_vars, gc_vars, profile_vars,
                    call_stack, ctl >>

\* A slip: under an override the write is dropped.
set_slot_module_not_under_override(slot, value) ==
    /\ Running
    /\ module_env' = IF module_variables = None
                     THEN [module_env EXCEPT ![slot] = Some(value)]
                     ELSE module_env
    /\ ret' = Unit
    /\ last_op' = [name |-> "set_slot_module", slot |-> slot]
    /\ UNCHANGED << lsp_vars, host_vars, profile_start, before_stmt, local_variables,
                    context_vars, gc_vars, profile_vars,
                    call_stack, ctl >>

\* A slip: the write goes to slot 0, whatever slot was named.
set_slot_module_slot_zero(slot, value) ==
    /\ Running
    /\ module_env' = [module_env EXCEPT ![0] = Some(value)]
    /\ ret' = Unit
    /\ last_op' = [name |-> "set_slot_module", slot |-> slot]
    /\ UNCHANGED << lsp_vars, host_vars, profile_start, before_stmt, local_variables,
                    context_vars, gc_vars, profile_vars,
                    call_stack, ctl >>

set_slot_module(slot, value) ==
    /\ Running
    /\ module_env' = [module_env EXCEPT ![slot] = Some(value)]
    /\ ret' = Unit
    /\ last_op' = [name |-> "set_slot_module", slot |-> slot]
    /\ UNCHANGED << lsp_vars, host_vars, profile_start, before_stmt, local_variables,
                    context_vars, gc_vars, profile_vars,
                    call_stack, ctl >>

set_slot_local(slot, value) ==
    /\ Running
    /\ local_variables' = LocalSlots_set_slot(local_variables, slot, value)
    /\ ret' = Unit
    /\ last_op' = [name |-> "set_slot_local", slot |-> slot]
    /\ UNCHANGED << lsp_vars, host_vars, profile_start, before_stmt, module_env,
                    context_vars, gc_vars, profile_vars, call_stack, ctl >>

\* The name of local slot s, as the compiled program passes it.
LocalName(s) == "y"

\* ------------------------------------------------- the slot specification
\* Slot reads and writes, inside and outside function contexts.
NextSlots ==
    \/ \E s \in ModuleSlotIds : get_slot_module(s)
    \/ \E s \in LocalSlotIds : get_slot_local(s, LocalName(s))
    \/ \E s \in ModuleSlotIds, v \in Values : set_slot_module(s, v)
    \/ \E s \in LocalSlotIds, v \in Values : set_slot_local(s, v)
    \/ \E m \in {None} \cup {Some(e) : e \in FrozenModules}, cm \in {"a.bzl"} :
           with_function_context_enter(m, cm)
    \/ \E r \in WithinResults(Values) : within_return(r)
    \/ with_function_context_exit

SpecSlots == Init /\ [][NextSlots]_vars

\* --------------------------------------------- the override specification
\* Reads and writes of module slots while overrides come and go.
NextOverride ==
    \/ \E s \in ModuleSlotIds : get_slot_module(s)
    \/ \E s \in ModuleSlotIds : set_slot_module(s, Value_new(1))
    \/ set_module_variable_at_some_point("x", Value_new(2))
    \/ \E m \in {None} \cup {Some(e) : e \in FrozenModules} :
           with_function_context_enter(m, "a.bzl")
    \/ \E r \in WithinResults({Value_new(1)}) : within_return(r)
    \/ with_function_context_exit

SpecOverride == Init /\ [][NextOverride]_vars

\* ------------------------------------------------------ GC and profiling
\* A slip: the flag is cleared, as if a trigger overrode the disabling.
Evaluator_trigger_gc_reenable ==
    /\ Running
    /\ next_gc_level' = 0
    /\ disable_gc' = FALSE
    /\ ret' = Unit
    /\ last_op' = [name |-> "trigger_gc"]
    /\ UNCHANGED << lsp_vars, host_vars, profile_start, before_stmt, slot_vars,
                    context_vars, allocated_bytes, profile_vars,
                    call_stack, ctl >>

\* A slip: the collection is run at once, and whether or not it is disabled.
Evaluator_trigger_gc_collects ==
    /\ Running
    /\ next_gc_level' = 0
    /\ allocated_bytes' = 0
    /\ ret' = Unit
    /\ last_op' = [name |-> "trigger_gc"]
    /\ UNCHANGED << lsp_vars, host_vars, profile_start, before_stmt, slot_vars,
                    context_vars, disable_gc,
                    profile_vars, call_stack, ctl >>

\* trigger_gc
Evaluator_trigger_gc ==
    /\ Running
    /\ next_gc_level' = 0
    /\ ret' = Unit
    /\ last_op' = [name |-> "trigger_gc"]
    /\ UNCHANGED << lsp_vars, host_vars, profile_start, before_stmt, slot_vars,
                    context_vars, disable_gc, allocated_bytes,
                    profile_vars, call_stack, ctl >>

\* disable_gc
Evaluator_disable_gc ==
    /\ Running
    /\ disable_gc' = TRUE
    /\ ret' = Unit
    /\ last_op' = [name |-> "disable_gc"]
    /\ UNCHANGED << lsp_vars, host_vars, profile_start, before_stmt, slot_vars,
                    context_vars, next_gc_level, allocated_bytes,
                    profile_vars, call_stack, ctl >>

\* A slip: profiling is switched on and the collector is left enabled.
enable_profile_gc_left_on ==
    /\ Running
    /\ profiling' = TRUE
    /\ profile_start' = IF profiling THEN profile_start ELSE Some(Len(call_stack))
    /\ ret' = Unit
    /\ last_op' = [name |-> "enable_profile"]
    /\ UNCHANGED << lsp_vars, host_vars, before_stmt, slot_vars, context_vars, gc_vars,
                    stmt_profile, heap_records, call_stack, ctl >>

enable_profile ==
    /\ Running
    /\ profiling' = TRUE
    /\ profile_start' = IF profiling THEN profile_start ELSE Some(Len(call_stack))
    /\ disable_gc' = TRUE
    /\ ret' = Unit
    /\ last_op' = [name |-> "enable_profile"]
    /\ UNCHANGED << lsp_vars, host_vars, before_stmt, slot_vars, context_vars,
                    next_gc_level, allocated_bytes,
                    stmt_profile, heap_records, call_stack, ctl >>

\* StmtProfile::enable
StmtProfile_enable(sp) == [sp EXCEPT !.enabled = TRUE]

\* A slip: enabling the statement profiler disables GC, as enable_profile does.
enable_stmt_profile_disables_gc ==
    /\ Running
    /\ before_stmt < MaxHooks
    /\ stmt_profile' = StmtProfile_enable(stmt_profile)
    /\ before_stmt' = before_stmt + 1
    /\ disable_gc' = TRUE
    /\ ret' = Unit
    /\ last_op' = [name |-> "enable_stmt_profile"]
    /\ UNCHANGED << lsp_vars, host_vars, profile_start, slot_vars, context_vars,
                    next_gc_level, allocated_bytes, profiling, heap_records,
                    call_stack, ctl >>

\* enable_stmt_profile; the hook is added to before_stmt at every call.
enable_stmt_profile ==
    /\ Running
    /\ before_stmt < MaxHooks
    /\ stmt_profile' = StmtProfile_enable(stmt_profile)
    /\ before_stmt' = before_stmt + 1
    /\ ret' = Unit
    /\ last_op' = [name |-> "enable_stmt_profile"]
    /\ UNCHANGED << lsp_vars, host_vars, profile_start, slot_vars, context_vars,
                    gc_vars, profiling, heap_records,
                    call_stack, ctl >>

\* Heap::write_profile writes the file: it succeeds or fails with an I/O error.
IoError == [err |-> "IoError"]
Heap_write_profile_results == {Ok(Unit), Err(IoError, << >>)}

\* A slip: the profiling flag is not looked at.
write_profile_unchecked(r) ==
    /\ Running
    /\ ret' = r
    /\ last_op' = [name |-> "write_profile"]
    /\ UNCHANGED << lsp_vars, host_vars, profile_start, slot_vars, context_vars,
                    gc_vars, profile_vars, before_stmt,
                    call_stack, ctl >>

write_profile(r) ==
    /\ Running
    /\ ret' = IF ~profiling
              THEN Err(EvaluatorError_ProfilingNotEnabled, << >>)
              ELSE r
    /\ last_op' = [name |-> "write_profile"]
    /\ UNCHANGED << lsp_vars, host_vars, profile_start, slot_vars, context_vars,
                    gc_vars, profile_vars, before_stmt,
                    call_stack, ctl >>

\* StmtProfile::write: nothing when the profiler is not enabled, else the
\* outcome r of writing the file.
StmtProfile_write(sp, r) == IF sp.enabled THEN Some(r) ELSE None

\* A slip: the flag of the call profiler is looked at.
write_stmt_profile_checks_profiling(r) ==
    /\ Running
    /\ ret' = IF ~profiling
              THEN Err(EvaluatorError_StmtProfilingNotEnabled, << >>)
              ELSE r
    /\ last_op' = [name |-> "write_stmt_profile"]
    /\ UNCHANGED << lsp_vars, host_vars, profile_start, slot_vars, context_vars, gc_vars,
                    profile_vars, before_stmt, call_stack, ctl >>

write_stmt_profile(r) ==
    /\ Running
    /\ ret' = unwrap_or_else(StmtProfile_write(stmt_profile, r),
                             Err(EvaluatorError_StmtProfilingNotEnabled, << >>))
    /\ last_op' = [name |-> "write_stmt_profile"]
    /\ UNCHANGED << lsp_vars, host_vars, profile_start, slot_vars, context_vars, gc_vars,
                    profile_vars, before_stmt, call_stack, ctl >>

\* set_loader
set_loader(l) ==
    /\ Running
    /\ loader' = Some(l)
    /\ ret' = Unit
    /\ last_op' = [name |-> "set_loader"]
    /\ UNCHANGED << lsp_vars, extra_v, profile_start, slot_vars, context_vars, gc_vars,
                    profile_vars, before_stmt, call_stack, ctl >>

\* The running code allocates AllocChunk bytes on the heap.
Heap_alloc ==
    /\ Running
    /\ allocated_bytes < MaxChunks * AllocChunk
    /\ allocated_bytes' = allocated_bytes + AllocChunk
    /\ ret' = Unit
    /\ last_op' = [name |-> "alloc"]
    /\ UNCHANGED << lsp_vars, host_vars, profile_start, slot_vars, context_vars,
                    disable_gc, next_gc_level,
                    profile_vars, before_stmt, call_stack, ctl >>

\* A slip: the collector runs although it is disabled.
possible_gc_ignores_disable(live) ==
    /\ Running
    /\ allocated_bytes >= next_gc_level
    /\ live <= allocated_bytes
    /\ allocated_bytes' = live
    /\ next_gc_level' = live + GC_THRESHOLD
    /\ ret' = Unit
    /\ last_op' = [name |-> "garbage_collect"]
    /\ UNCHANGED << lsp_vars, host_vars, profile_start, slot_vars, context_vars,
                    disable_gc, profile_vars, before_stmt,
                    call_stack, ctl >>

\* The allocation checkpoint, when it collects: the collection leaves `live`
\* bytes allocated and the watermark is set anew.
possible_gc(live) ==
    /\ Running
    /\ ~disable_gc
    /\ allocated_bytes >= next_gc_level
    /\ live <= allocated_bytes
    /\ allocated_bytes' = live
    /\ next_gc_level' = live + GC_THRESHOLD
    /\ ret' = Unit
    /\ last_op' = [name |-> "garbage_collect"]
    /\ UNCHANGED << lsp_vars, host_vars, profile_start, slot_vars, context_vars,
                    disable_gc, profile_vars, before_stmt,
                    call_stack, ctl >>

LiveSizes == {n * AllocChunk : n \in 0 .. MaxChunks}

\* ------------------------------------------------------------- GC roots
\* A function starts: LocalSlots gets a frame of unassigned slots on top.
LocalSlots_push_frame ==
    /\ Running
    /\ Len(local_variables) < MaxLocalFrames
    /\ local_variables' = Append(local_variables, [s \in LocalSlotIds |-> None])
    /\ ret' = Unit
    /\ last_op' = [name |-> "push_frame"]
    /\ UNCHANGED << lsp_vars, host_vars, profile_start, before_stmt, module_env, context_vars,
                    gc_vars, profile_vars, call_stack, ctl >>

\* The function returns: its frame is dropped.
LocalSlots_pop_frame ==
    /\ Running
    /\ Len(local_variables) > 1
    /\ local_variables' = Pop(local_variables)
    /\ ret' = Unit
    /\ last_op' = [name |-> "pop_frame"]
    /\ UNCHANGED << lsp_vars, host_vars, profile_start, before_stmt, module_env, context_vars,
                    gc_vars, profile_vars, call_stack, ctl >>

\* The host stores a heap value in the public field extra_v.
set_extra_v(value) ==
    /\ Running
    /\ extra_v' = Some(value)
    /\ ret' = Unit
    /\ last_op' = [name |-> "set_extra_v"]
    /\ UNCHANGED << lsp_vars, loader, profile_start, before_stmt, slot_vars, context_vars,
                    gc_vars, profile_vars, call_stack, ctl >>

\* A root shown to the tracer: where it is and the value there.
Root(in, frame, slot, value) ==
    [in |-> in, frame |-> frame, slot |-> slot, value |-> value]
\* walker.walk_opt on every slot of a table: the assigned ones are roots.
walk_slots(in, frame, slots) ==
    {Root(in, frame, s, slots[s].val) : s \in {t \in DOMAIN slots : slots[t] # None}}
\* LocalSlots::walk: every frame on the stack.
LocalSlots_walk(ls) ==
    UNION {walk_slots("local_variables", i, ls[i]) : i \in DOMAIN ls}
\* CallStack::walk: the called value of every frame.
CallStack_walk(cs) ==
    {Root("call_stack", i, 0, [function |-> cs[i].function]) : i \in DOMAIN cs}

\* A slip: the frames of the call stack are not walked.
walk_roots_without_call_stack ==
    walk_slots("module_env", 0, module_env) \cup LocalSlots_walk(local_variables)
\* What walk shows the tracer.
walk_roots ==
    walk_slots("module_env", 0, module_env)
        \cup LocalSlots_walk(local_variables)
        \cup CallStack_walk(call_stack)

\* walk(walker): afterwards the walker has been shown walk_roots.
walk ==
    /\ Running
    /\ ret' = Unit
    /\ last_op' = [name |-> "walk", walker |-> walk_roots]
    /\ UNCHANGED << lsp_vars, host_vars, profile_start, before_stmt, slot_vars, context_vars,
                    gc_vars, profile_vars, call_stack, ctl >>

\* ------------------------------------------------ the roots specification
\* Writes to slots, frames of locals, calls, the extra_v field, and walk.
NextWalk ==
    \/ \E s \in ModuleSlotIds : set_slot_module(s, Value_new(1))
    \/ \E s \in LocalSlotIds : set_slot_local(s, Value_new(2))
    \/ LocalSlots_push_frame
    \/ LocalSlots_pop_frame
    \/ \E f \in Functions : with_call_stack_enter(f, None)
    \/ \E r \in WithinResults({Value_new(1)}) : within_return(r)
    \/ with_call_stack_exit
    \/ set_extra_v(Value_new(1))
    \/ walk

SpecWalk == Init /\ [][NextWalk]_vars

\* --------------------------------------------------- the GC specification
\* The GC and profiling switches, allocation, collection and calls.
NextGc ==
    \/ Evaluator_trigger_gc
    \/ Evaluator_disable_gc
    \/ enable_profile
    \/ enable_stmt_profile
    \/ \E r \in Heap_write_profile_results : write_profile(r)
    \/ \E r \in Heap_write_profile_results : write_stmt_profile(r)
    \/ set_loader("loader")
    \/ Heap_alloc
    \/ \E live \in LiveSizes : possible_gc(live)
    \/ with_call_stack_enter("f", None)
    \/ \E r \in WithinResults({Value_new(1)}) : within_return(r)
    \/ with_call_stack_exit

SpecGc == Init /\ [][NextGc]_vars

\* ------------------------------------------------------ the heap profile
HeapProfileFormat_Summary == "Summary"
HeapProfileFormat_FlameGraph == "FlameGraph"
HeapProfileFormats == {HeapProfileFormat_Summary, HeapProfileFormat_FlameGraph}

\* AggregateHeapProfileInfo::collect: the records are walked in order with
\* the stack of open calls; every enter counts one invocation at the node of
\* its call path.  The nodes are kept in the order in which they were first
\* entered.  An exit record met with no call open is passed over, and so
\* is a value that is no record: it counts as no invocation.
AddCall(nodes, path) ==
    IF \E i \in DOMAIN nodes : nodes[i].path = path
    THEN [i \in DOMAIN nodes |->
             IF nodes[i].path = path
             THEN [nodes[i] EXCEPT !.count = @ + 1] ELSE nodes[i]]
    ELSE Append(nodes, [path |-> path, count |-> 1])
RECURSIVE AggregateHeapProfileInfo_collect(_)
AggregateHeapProfileInfo_collect(rs) ==
    IF rs = << >> THEN [stack |-> << >>, nodes |-> << >>]
    ELSE LET t == AggregateHeapProfileInfo_collect(Pop(rs))
             r == rs[Len(rs)]
         IN  IF r.rec = "enter"
             THEN [stack |-> Append(t.stack, r.function),
                   nodes |-> AddCall(t.nodes, Append(t.stack, r.function))]
             ELSE IF r.rec = "exit"
             THEN [t EXCEPT !.stack = IF @ = << >> THEN @ ELSE Pop(@)]
             ELSE t

\* AggregateHeapProfileInfo::write: folded stacks, a line for every node.
AggregateHeapProfileInfo_write(stacks) ==
    [format |-> "flame",
     lines |-> [i \in DOMAIN stacks.nodes |->
                   [path |-> stacks.nodes[i].path, weight |-> stacks.nodes[i].count]]]
\* AggregateHeapProfileInfo::gen_summary_csv: a row for every function, with
\* the invocations of all its nodes added up.
RECURSIVE SumCounts(_, _)
SumCounts(nodes, f) ==
    IF nodes = << >> THEN 0
    ELSE SumCounts(Tail(nodes), f)
            + (IF Head(nodes).path[Len(Head(nodes).path)] = f THEN Head(nodes).count ELSE 0)
AggregateHeapProfileInfo_gen_summary_csv(stacks) ==
    [format |-> "summary",
     rows |-> {[function |-> f, count |-> SumCounts(stacks.nodes, f)] :
                  f \in {g \in Functions : SumCounts(stacks.nodes, g) > 0}}]

write_flame_heap_profile(heap) ==
    AggregateHeapProfileInfo_write(AggregateHeapProfileInfo_collect(heap))
\* A slip: the summary is written with the flame graph's writer.
write_summarized_heap_profile_folded(heap) ==
    AggregateHeapProfileInfo_write(AggregateHeapProfileInfo_collect(heap))
write_summarized_heap_profile(heap) ==
    AggregateHeapProfileInfo_gen_summary_csv(AggregateHeapProfileInfo_collect(heap))

\* A slip: the arms of the match are the wrong way round.
gen_enabled_arms_swapped(heap, format) ==
    IF format = HeapProfileFormat_Summary
    THEN write_flame_heap_profile(heap)
    ELSE write_summarized_heap_profile(heap)
\* HeapProfile::gen_enabled
gen_enabled(heap, format) ==
    IF format = HeapProfileFormat_Summary
    THEN write_summarized_heap_profile(heap)
    ELSE write_flame_heap_profile(heap)

\* A slip: the test of `enabled` is the wrong way round.
HeapProfile_gen_inverted(format) ==
    /\ Running
    /\ ret' = IF profiling THEN None ELSE Some(gen_enabled(heap_records, format))
    /\ last_op' = [name |-> "gen", format |-> format]
    /\ UNCHANGED << lsp_vars, host_vars, profile_start, before_stmt, slot_vars, context_vars,
                    gc_vars, profile_vars, call_stack, ctl >>

\* HeapProfile::gen; the profile's `enabled` is the Evaluator's `profiling`.
HeapProfile_gen(format) ==
    /\ Running
    /\ ret' = IF ~profiling THEN None ELSE Some(gen_enabled(heap_records, format))
    /\ last_op' = [name |-> "gen", format |-> format]
    /\ UNCHANGED << lsp_vars, host_vars, profile_start, before_stmt, slot_vars, context_vars,
                    gc_vars, profile_vars, call_stack, ctl >>

\* heap().alloc(..) of a value by the host or the running code: AllocChunk
\* bytes, and the value lies on the heap after all that was allocated before.
Heap_alloc_value ==
    /\ Running
    /\ allocated_bytes < MaxChunks * AllocChunk
    /\ allocated_bytes' = allocated_bytes + AllocChunk
    /\ heap_records' = Append(heap_records, [rec |-> "value"])
    /\ ret' = Unit
    /\ last_op' = [name |-> "alloc"]
    /\ UNCHANGED << lsp_vars, host_vars, profile_start, slot_vars, context_vars,
                    disable_gc, next_gc_level, profiling, stmt_profile,
                    before_stmt, call_stack, ctl >>

\* ----------------------------------------- the heap-profile specification
\* Values go on the heap before, during and after the calls of a profiled
\* function, and both profiles are generated.
NextHeapProfile ==
    \/ Heap_alloc_value
    \/ enable_profile
    \/ with_call_stack_enter("f", None)
    \/ \E r \in WithinResults({Value_new(1)}) : within_return(r)
    \/ with_call_stack_exit
    \/ \E format \in HeapProfileFormats : HeapProfile_gen(format)

SpecHeapProfile == Init /\ [][NextHeapProfile]_vars

\* ------------------------------------------------ the scenario f(41)
\* The function of the scenario, def f(x): return x + 1, called with 41: the
\* caller binds local slot 0 to the argument, the body reads the slot and
\* returns the value plus one, or the failure of the read.  The call may be
\* profiled.
ScenarioArgument == 41
Value_add(value, n) == Value_new(value.v + n)
f_return ==
    /\ last_op.name = "get_slot_local"
    /\ within_return(IF ret.tag = "Ok" THEN Ok(Value_add(ret.val, 1)) ELSE ret)

NextScenario ==
    \/ with_call_stack_enter("f", None)
    \/ LocalSlots_push_frame
    \/ set_slot_local(0, Value_new(ScenarioArgument))
    \/ get_slot_local(0, "x")
    \/ f_return
    \/ LocalSlots_pop_frame
    \/ with_call_stack_exit
    \/ enable_profile

SpecScenario == Init /\ [][NextScenario]_vars

\* ------------------------------------------- the trigger specification
\* trigger_gc in every state of the switches, with slots assigned, calls
\* open and an override active.
NextTrigger ==
    \/ Evaluator_trigger_gc
    \/ Evaluator_disable_gc
    \/ enable_profile
    \/ enable_stmt_profile
    \/ Heap_alloc
    \/ \E live \in LiveSizes : possible_gc(live)
    \/ set_slot_module(0, Value_new(1))
    \/ with_call_stack_enter("f", None)
    \/ with_function_context_enter(Some("lib"), "a.bzl")
    \/ within_return(Ok(Value_new(1)))
    \/ with_call_stack_exit
    \/ with_function_context_exit

SpecTrigger == Init /\ [][NextTrigger]_vars

\* ------------------------------------------ the read-write specification
\* Reads and writes of every slot, with frames of locals pushed and popped
\* and an override that comes and goes.
NextReadWrite ==
    \/ \E s \in ModuleSlotIds : get_slot_module(s)
    \/ \E s \in LocalSlotIds : get_slot_local(s, LocalName(s))
    \/ \E s \in ModuleSlotIds, v \in Values : set_slot_module(s, v)
    \/ \E s \in LocalSlotIds : set_slot_local(s, Value_new(1))
    \/ LocalSlots_push_frame
    \/ LocalSlots_pop_frame
    \/ with_function_context_enter(Some("lib"), "a.bzl")
    \/ within_return(Ok(Value_new(1)))
    \/ with_function_context_exit

SpecReadWrite == Init /\ [][NextReadWrite]_vars

\* ---------------------------------------------- the profile specification
\* The call profiler, switched on at any moment, and calls of two functions.
NextProfile ==
    \/ enable_profile
    \/ \E f \in Functions : with_call_stack_enter(f, None)
    \/ \E r \in WithinResults({Value_new(1)}) : within_return(r)
    \/ with_call_stack_exit
    \/ \E format \in HeapProfileFormats : HeapProfile_gen(format)

SpecProfile == Init /\ [][NextProfile]_vars

\* ------------------------------------------------- the call specification
\* Calls and function contexts, nested in every way.
NextCall ==
    \/ \E f \in Functions, sp \in {None} \cup {Some(s) : s \in Spans} :
           with_call_stack_enter(f, sp)
    \/ \E r \in WithinResults(Values) : within_return(r)
    \/ with_call_stack_exit
    \/ \E m \in {None} \cup {Some(e) : e \in FrozenModules}, cm \in CodeMaps :
           with_function_context_enter(m, cm)
    \/ with_function_context_exit
    \/ Evaluator_call_stack

SpecCall == Init /\ [][NextCall]_vars

\* ------------------------------------------------ the whole specification
\* Calls, contexts, slots and the GC and profiling switches together, each
\* with one choice of arguments; the root walk, the call-stack export and the
\* profile output are explored in the specifications above.
Next ==
    \/ with_call_stack_enter("f", None)
    \/ \E r \in WithinResults({Value_new(1)}) : within_return(r)
    \/ with_call_stack_exit
    \/ with_function_context_enter(Some("lib"), "a.bzl")
    \/ with_function_context_exit
    \/ get_slot_module(0)
    \/ get_slot_local(0, LocalName(0))
    \/ set_slot_module(0, Value_new(1))
    \/ set_slot_local(0, Value_new(1))
    \/ Evaluator_trigger_gc
    \/ Evaluator_disable_gc
    \/ enable_profile
    \/ enable_stmt_profile
    \/ write_profile(Ok(Unit))
    \/ write_stmt_profile(Ok(Unit))
    \/ set_loader("loader")
    \/ Heap_alloc
    \/ \E live \in LiveSizes : possible_gc(live)

Spec == Init /\ [][Next]_vars

\* ---------------------------------------------------- the LSP test client
\* Messages of lsp_server: Message::Request, Message::Response and
\* Message::Notification.
Request(id) == [kind |-> "Request", id |-> id]
Response(id, result, error) ==
    [kind |-> "Response", id |-> id, result |-> result, error |-> error]
Notification_new(method, params) ==
    [kind |-> "Notification", method |-> method, params |-> params]
Notification(method) == Notification_new(method, "value")
\* The result payloads: one that deserializes to the type asked for, one
\* that does not.
JsonValues == {"value", "null"}
ServerResponses ==
    {Response(id, Some(j), None) : id \in RequestIds, j \in JsonValues}
        \cup {Response(id, None, Some("error")) : id \in RequestIds}
        \cup {Response(id, None, None) : id \in RequestIds}
ServerMessages ==
    ServerResponses \cup {Request(1)} \cup {Notification(m) : m \in Methods}

RecvTimeoutError == [err |-> "RecvTimeoutError"]
DeserializeError == [err |-> "serde_json::Error"]
TestServerError_ResponseError(e) == [err |-> "ResponseError", error |-> e]
TestServerError_InvalidResponse(id, msg) ==
    [err |-> "InvalidResponse", id |-> id, response |-> msg]
TestServerError_ReceivedRequest(req) == [err |-> "ReceivedRequest", request |-> req]
TestServerError_DuplicateResponse(new, existing) ==
    [err |-> "DuplicateResponse", new |-> new, existing |-> existing]

\* How many messages of a kind a queue holds.
RECURSIVE CountKind(_, _)
CountKind(msgs, kind) ==
    IF msgs = << >> THEN 0
    ELSE (IF Head(msgs).kind = kind THEN 1 ELSE 0) + CountKind(Tail(msgs), kind)

\* The server thread sends a message to the client.
Server_send(message) ==
    /\ connected
    /\ Len(receiver) < MaxInFlight
    /\ message.kind = "Notification" =>
          Len(notifications) + CountKind(receiver, "Notification") < MaxNotifications
    /\ receiver' = Append(receiver, message)
    /\ UNCHANGED << evaluator_vars, session_vars, responses, notifications, client, ret, last_op >>

\* serde_json::from_value::<T>
from_value(json) ==
    IF json = "value" THEN Ok([t |-> json]) ELSE Err(DeserializeError, << >>)

\* A slip: a second response for an id takes the place of the stored one.
receive_outcome_insert(rcv, rs, ns) ==
    IF rcv = << >>
    THEN [res |-> Err(RecvTimeoutError, << >>),
          receiver |-> rcv, responses |-> rs, notifications |-> ns]
    ELSE LET message == Head(rcv) IN
         IF message.kind = "Request"
         THEN [res |-> Err(TestServerError_ReceivedRequest(message), << >>),
               receiver |-> Tail(rcv), responses |-> rs, notifications |-> ns]
         ELSE IF message.kind = "Response"
         THEN [res |-> Ok(Unit), receiver |-> Tail(rcv),
               responses |-> [rs EXCEPT ![message.id] = Some(message)],
               notifications |-> ns]
         ELSE [res |-> Ok(Unit), receiver |-> Tail(rcv), responses |-> rs,
               notifications |-> Append(ns, message)]
\* TestServer::receive: its result and the fields after it.  recv_timeout
\* gives the oldest message in the channel, or times out when there is none.
receive_outcome(rcv, rs, ns) ==
    IF rcv = << >>
    THEN [res |-> Err(RecvTimeoutError, << >>),
          receiver |-> rcv, responses |-> rs, notifications |-> ns]
    ELSE LET message == Head(rcv) IN
         IF message.kind = "Request"
         THEN [res |-> Err(TestServerError_ReceivedRequest(message), << >>),
               receiver |-> Tail(rcv), responses |-> rs, notifications |-> ns]
         ELSE IF message.kind = "Response"
         THEN IF rs[message.id] # None
              THEN [res |-> Err(TestServerError_DuplicateResponse(
                                    message, rs[message.id].val), << >>),
                    receiver |-> Tail(rcv), responses |-> rs, notifications |-> ns]
              ELSE [res |-> Ok(Unit), receiver |-> Tail(rcv),
                    responses |-> [rs EXCEPT ![message.id] = Some(message)],
                    notifications |-> ns]
         ELSE [res |-> Ok(Unit), receiver |-> Tail(rcv), responses |-> rs,
               notifications |-> Append(ns, message)]

\* receive, called by an operation of the test client other than get_response
TestServer_receive ==
    /\ client.op = "idle"
    /\ LET out == receive_outcome(receiver, responses, notifications) IN
          /\ receiver' = out.receiver
          /\ responses' = out.responses
          /\ notifications' = out.notifications
          /\ ret' = out.res
    /\ last_op' = [name |-> "receive"]
    /\ UNCHANGED << evaluator_vars, session_vars, client >>

\* A slip: the loop breaks with the first stored response, whatever its id.
get_response_match_any(id, rs) ==
    IF \A i \in RequestIds : rs[i] = None THEN None
    ELSE LET first == CHOOSE i \in RequestIds :
                          /\ rs[i] # None
                          /\ \A j \in RequestIds : rs[j] # None => i <= j
             msg == rs[first].val
         IN IF msg.error = None /\ msg.result # None
            THEN Some(from_value(msg.result.val))
            ELSE IF msg.error # None /\ msg.result = None
            THEN Some(Err(TestServerError_ResponseError(msg.error.val), << >>))
            ELSE Some(Err(TestServerError_InvalidResponse(id, msg), << >>))
\* The match of get_response on responses.get(&id): what the loop breaks
\* with, or None when it goes round again.
get_response_match(id, rs) ==
    IF rs[id] = None THEN None
    ELSE LET msg == rs[id].val IN
         IF msg.error = None /\ msg.result # None
         THEN Some(from_value(msg.result.val))
         ELSE IF msg.error # None /\ msg.result = None
         THEN Some(Err(TestServerError_ResponseError(msg.error.val), << >>))
         ELSE Some(Err(TestServerError_InvalidResponse(id, msg), << >>))

\* get_response(id) is called: the loop is entered.
get_response_call(id) ==
    /\ client.op = "idle"
    /\ client' = [op |-> "get_response", id |-> id]
    /\ ret' = NoRet
    /\ last_op' = NoOp
    /\ UNCHANGED << evaluator_vars, session_vars, receiver, responses, notifications >>

\* One round of the loop of get_response: receive()?, then the match.
get_response_round ==
    /\ client.op = "get_response"
    /\ LET out == receive_outcome(receiver, responses, notifications)
           found == get_response_match(client.id, out.responses)
       IN /\ receiver' = out.receiver
          /\ responses' = out.responses
          /\ notifications' = out.notifications
          /\ IF out.res.tag = "Err"
             THEN /\ ret' = out.res
                  /\ last_op' = [name |-> "get_response", id |-> client.id]
                  /\ client' = [op |-> "idle"]
             ELSE IF found # None
             THEN /\ ret' = found.val
                  /\ last_op' = [name |-> "get_response", id |-> client.id]
                  /\ client' = [op |-> "idle"]
             ELSE UNCHANGED << ret, last_op, client >>
    /\ UNCHANGED << evaluator_vars, session_vars >>

\* ------------------------------------------------- the LSP specification
\* The server sends what it likes; the client receives and waits for
\* responses.
NextLsp ==
    \/ \E message \in ServerMessages : Server_send(message)
    \/ TestServer_receive
    \/ \E id \in RequestIds : get_response_call(id)
    \/ get_response_round

SpecLsp == Init /\ [][NextLsp]_vars

\* ------------------------------------------------------- get_notification
\* The server publishes a notification while the channel is empty.  Of the
\* method with two payloads at most MaxNotifications are kept queued; of
\* the other as many as the loop of get_notification has rounds, so that
\* every round can receive a notification that does not match.
CountMethod(ns, method) == Cardinality({i \in 1..Len(ns) : ns[i].method = method})
PublishedNotifications ==
    {Notification_new("publishDiagnostics", j) : j \in JsonValues}
        \cup {Notification("logMessage")}
Server_publish(notification) ==
    /\ connected
    /\ receiver = << >>
    /\ CountMethod(notifications, notification.method) <
          (IF notification.method = "publishDiagnostics"
           THEN MaxNotifications ELSE GetNotificationRetries)
    /\ receiver' = << notification >>
    /\ UNCHANGED << evaluator_vars, session_vars, responses, notifications, client, ret, last_op >>

\* A slip: the last queued notification of the method is taken.
find_method_last(ns, method) ==
    IF \E i \in 1..Len(ns) : ns[i].method = method
    THEN CHOOSE i \in 1..Len(ns) :
             /\ ns[i].method = method
             /\ \A j \in (i + 1)..Len(ns) : ns[j].method # method
    ELSE 0
\* iter().enumerate().find_map(..): the index of the first queued
\* notification of the method; 0 stands for None.
find_method(ns, method) ==
    IF \E i \in 1..Len(ns) : ns[i].method = method
    THEN CHOOSE i \in 1..Len(ns) :
             /\ ns[i].method = method
             /\ \A j \in 1..(i - 1) : ns[j].method # method
    ELSE 0
\* VecDeque::remove(i)
VecDeque_remove(ns, i) == SubSeq(ns, 1, i - 1) \o SubSeq(ns, i + 1, Len(ns))
NoNotificationError(method) == [err |-> "Did not get a notification", method |-> method]

\* get_notification::<T>() is called: the loop is entered, no round done.
get_notification_call(method) ==
    /\ client.op = "idle"
    /\ client' = [op |-> "get_notification", method |-> method, round |-> 0]
    /\ ret' = NoRet
    /\ last_op' = NoOp
    /\ UNCHANGED << evaluator_vars, session_vars, receiver, responses, notifications >>

\* One round of the loop of get_notification: receive()?, then the search;
\* after the last round without a match the error behind the loop.
get_notification_round ==
    /\ client.op = "get_notification"
    /\ LET out == receive_outcome(receiver, responses, notifications)
           i == find_method(out.notifications, client.method)
           done == [name |-> "get_notification", method |-> client.method]
       IN /\ receiver' = out.receiver
          /\ responses' = out.responses
          /\ IF out.res.tag = "Err"
             THEN /\ notifications' = out.notifications
                  /\ ret' = out.res
                  /\ last_op' = done
                  /\ client' = [op |-> "idle"]
             ELSE IF i # 0
             THEN /\ notifications' = VecDeque_remove(out.notifications, i)
                  /\ ret' = from_value(out.notifications[i].params)
                  /\ last_op' = done
                  /\ client' = [op |-> "idle"]
             ELSE IF client.round + 1 = GetNotificationRetries
             THEN /\ notifications' = out.notifications
                  /\ ret' = Err(NoNotificationError(client.method), << >>)
                  /\ last_op' = done
                  /\ client' = [op |-> "idle"]
             ELSE /\ notifications' = out.notifications
                  /\ client' = [client EXCEPT !.round = @ + 1]
                  /\ UNCHANGED << ret, last_op >>
    /\ UNCHANGED << evaluator_vars, session_vars >>

\* The server publishes notifications; the client receives and asks for
\* notifications of a method.
NextNotify ==
    \/ \E notification \in PublishedNotifications : Server_publish(notification)
    \/ TestServer_receive
    \/ \E method \in Methods : get_notification_call(method)
    \/ get_notification_round

SpecNotify == Init /\ [][NextNotify]_vars

\* ------------------------------------------- starting and dropping the client
\* What the client sends: lsp_server::Request and lsp_server::Notification.
Request_new(id, method) == [kind |-> "Request", id |-> id, method |-> method]
SendError == [err |-> "SendError"]
\* The server thread ends: its end of the connection is closed.  What it
\* has sent can still be received.
Server_stop ==
    /\ connected
    /\ connected' = FALSE
    /\ UNCHANGED << evaluator_vars, receiver, responses, notifications, client,
                    sent, req_counter, initialize_response, server_thread, joins,
                    ret, last_op >>

\* TestServer::send: the result, and everything sent after it.
send_outcome(message) ==
    IF connected THEN [res |-> Ok(Unit), sent |-> Append(sent, message)]
    ELSE [res |-> Err(SendError, << >>), sent |-> sent]

\* initialize failed: new_with_settings returns the error, and `self`, which
\* initialize owns, is dropped.
initialize_fails(e) ==
    /\ ret' = e
    /\ last_op' = [name |-> "new_with_settings"]
    /\ client' = [op |-> "drop", pc |-> "send_request"]

\* initialize, to the `?` behind send_request: new_request takes the next
\* request id and the Initialize request is sent.
initialize_send_request ==
    /\ client = [op |-> "initialize", pc |-> "send_request"]
    /\ req_counter' = req_counter + 1
    /\ LET out == send_outcome(Request_new(req_counter + 1, "initialize")) IN
          /\ sent' = out.sent
          /\ IF out.res.tag = "Err"
             THEN initialize_fails(out.res)
             ELSE /\ client' = [op |-> "initialize", pc |-> "get_response",
                                id |-> req_counter + 1]
                  /\ UNCHANGED << ret, last_op >>
    /\ UNCHANGED << evaluator_vars, receiver, responses, notifications, connected,
                    initialize_response, server_thread, joins >>

\* A slip: an error response does not end initialize.
initialize_get_response_unchecked ==
    /\ client.op = "initialize" /\ client.pc = "get_response"
    /\ LET out == receive_outcome(receiver, responses, notifications)
           found == get_response_match(client.id, out.responses)
       IN /\ receiver' = out.receiver
          /\ responses' = out.responses
          /\ notifications' = out.notifications
          /\ IF out.res.tag = "Err"
             THEN initialize_fails(out.res)
             ELSE IF found = None
             THEN UNCHANGED << ret, last_op, client >>
             ELSE /\ client' = [op |-> "initialize", pc |-> "send_notification",
                                response |-> IF found.val.tag = "Err"
                                             THEN [t |-> "default"]
                                             ELSE found.val.val]
                  /\ UNCHANGED << ret, last_op >>
    /\ UNCHANGED << evaluator_vars, session_vars >>
\* initialize, one round of the loop of get_response::<InitializeResult>.
initialize_get_response ==
    /\ client.op = "initialize" /\ client.pc = "get_response"
    /\ LET out == receive_outcome(receiver, responses, notifications)
           found == get_response_match(client.id, out.responses)
       IN /\ receiver' = out.receiver
          /\ responses' = out.responses
          /\ notifications' = out.notifications
          /\ IF out.res.tag = "Err"
             THEN initialize_fails(out.res)
             ELSE IF found = None
             THEN UNCHANGED << ret, last_op, client >>
             ELSE IF found.val.tag = "Err"
             THEN initialize_fails(found.val)
             ELSE /\ client' = [op |-> "initialize", pc |-> "send_notification",
                                response |-> found.val.val]
                  /\ UNCHANGED << ret, last_op >>
    /\ UNCHANGED << evaluator_vars, session_vars >>

\* initialize, from the Initialized notification to its end.
initialize_send_notification ==
    /\ client.op = "initialize" /\ client.pc = "send_notification"
    /\ LET out == send_outcome(Notification("initialized")) IN
          /\ sent' = out.sent
          /\ IF out.res.tag = "Err"
             THEN /\ initialize_fails(out.res)
                  /\ UNCHANGED initialize_response
             ELSE /\ initialize_response' = Some(client.response)
                  /\ ret' = Ok("TestServer")
                  /\ last_op' = [name |-> "new_with_settings"]
                  /\ client' = [op |-> "idle"]
    /\ UNCHANGED << evaluator_vars, receiver, responses, notifications, connected,
                    req_counter, server_thread, joins >>

\* The test lets go of the TestServer it was given.
TestServer_out_of_scope ==
    /\ client.op = "idle"
    /\ client' = [op |-> "drop", pc |-> "send_request"]
    /\ UNCHANGED << evaluator_vars, receiver, responses, notifications,
                    session_vars, ret, last_op >>

\* A slip: the Exit notification is sent whatever became of the request.
drop_after_request_always(res) == "send_notification"
\* drop: where it goes on after send_request.
drop_after_request(res) == IF res.tag = "Err" THEN "join" ELSE "send_notification"

\* drop, the Shutdown request.
drop_send_request ==
    /\ client = [op |-> "drop", pc |-> "send_request"]
    /\ req_counter' = req_counter + 1
    /\ LET out == send_outcome(Request_new(req_counter + 1, "shutdown")) IN
          /\ sent' = out.sent
          /\ client' = [op |-> "drop", pc |-> drop_after_request(out.res)]
    /\ UNCHANGED << evaluator_vars, receiver, responses, notifications, connected,
                    initialize_response, server_thread, joins, ret, last_op >>

\* drop, the Exit notification.
drop_send_notification ==
    /\ client = [op |-> "drop", pc |-> "send_notification"]
    /\ sent' = send_outcome(Notification("exit")).sent
    /\ client' = [op |-> "drop", pc |-> "join"]
    /\ UNCHANGED << evaluator_vars, receiver, responses, notifications, connected,
                    req_counter, initialize_response, server_thread, joins,
                    ret, last_op >>

\* drop, server_thread.take() and the join of what it held: the join
\* returns when the server thread has ended.
drop_join ==
    /\ client = [op |-> "drop", pc |-> "join"]
    /\ IF server_thread # None
       THEN /\ ~connected
            /\ joins' = joins + 1
       ELSE UNCHANGED joins
    /\ server_thread' = None
    /\ client' = [op |-> "dropped"]
    /\ UNCHANGED << evaluator_vars, receiver, responses, notifications, sent,
                    connected, req_counter, initialize_response, ret, last_op >>

\* The server sends what it likes and may end at any time; the test builds
\* a TestServer and drops it.
NextSession ==
    \/ \E message \in ServerMessages : Server_send(message)
    \/ Server_stop
    \/ initialize_send_request
    \/ initialize_get_response
    \/ initialize_send_notification
    \/ TestServer_out_of_scope
    \/ drop_send_request
    \/ drop_send_notification
    \/ drop_join

SpecSession == InitSession /\ [][NextSession]_vars

\* ------------------------------------------------------------ the claims
OpenCalls == {i \in DOMAIN ctl : ctl[i].kind = "call"}
OpenContexts == {i \in DOMAIN ctl : ctl[i].kind = "ctx"}
\* This step is the part of with_call_stack that follows `within`.
CallExitStep == ctl # << >> /\ Len(ctl') = Len(ctl) - 1 /\ Top.kind = "call"
IsSuffix(s, t) == Len(s) <= Len(t) /\ s = SubSeq(t, Len(t) - Len(s) + 1, Len(t))

\* C1: the call stack holds exactly one frame for every with_call_stack
\* invocation that is still open, whether the invocations inside it succeeded
\* or failed; so when the outermost call has returned the depth is what it
\* was before it began (every push is undone by exactly one pop).
C1_PushPopBalanced ==
    /\ Len(call_stack) = Cardinality(OpenCalls)
    /\ (ctl = << >> => call_stack = << >>)
\* Two nested calls have failed and returned; a successful call has returned.
C1_Witness ==
    /\ ctl = << >> /\ call_stack = << >>
    /\ ret.tag = "Err" /\ Len(ret.call_stack) = 2

\* C2: a failure that with_call_stack returns carries a call stack that was
\* captured before the pop: the frames that are still on the call stack are
\* its tail, and before them it holds the frame of the failing call.
C2_CaptureBeforePop ==
    (ret.tag = "Err" /\ ret.call_stack # << >>) =>
        /\ Len(ret.call_stack) > Len(call_stack)
        /\ IsSuffix(to_diagnostic_frames(call_stack), ret.call_stack)
\* The inner of two nested calls has just failed: the attached stack names
\* the failing call g first and then the enclosing call f, which is still open.
C2_Witness ==
    /\ Len(call_stack) = 1 /\ call_stack[1].function = "f"
    /\ ret.tag = "Err" /\ Len(ret.call_stack) = 2
    /\ ret.call_stack[1].name = "g" /\ ret.call_stack[2].name = "f"

\* C3: the active codemap and module-variable override are those of the
\* innermost with_function_context invocation that is still open, and those
\* of Evaluator::new when none is: when an inner context has exited, by
\* return or by failure, the enclosing context's values are active again.
C3_ContextRestored ==
    IF OpenContexts = {}
    THEN codemap = CODEMAP /\ module_variables = None
    ELSE LET i == CHOOSE j \in OpenContexts : \A k \in OpenContexts : k <= j
         IN  codemap = ctl[i].codemap /\ module_variables = ctl[i].module
\* An inner context has just failed inside the context of a function of the
\* frozen module whose codemap is a.bzl.
C3_Witness ==
    /\ Len(ctl) = 1 /\ ctl[1].kind = "ctx" /\ ctl[1].res = Pending
    /\ ctl[1].codemap = "a.bzl" /\ ctl[1].module = Some("lib")
    /\ ret = Err(UserError, << >>)
    /\ codemap = "a.bzl" /\ module_variables = Some("lib")

\* C4: at a with_call_stack boundary a failure that has no call stack yet
\* gets one, and a failure that has one already is returned as it is.
C4_AttachedOnce ==
    [][CallExitStep /\ Top.res.tag = "Err" =>
          IF Top.res.call_stack = << >>
          THEN ret'.call_stack # << >> /\ ret'.error = Top.res.error
          ELSE ret' = Top.res]_vars
\* A failure of the inner of two nested calls has crossed both boundaries.
C4_Witness ==
    /\ ctl = << >>
    /\ ret.tag = "Err" /\ ret.error = UserError
    /\ Len(ret.call_stack) = 2 /\ ret.call_stack[1].name = "g"

\* The slot that a read of module slot s resolves to has never been assigned.
ModuleSlotUnassigned(s) ==
    IF module_variables = None
    THEN module_env[s] = None
    ELSE FrozenModule_get_slot(module_variables.val, s) = None
IsUnbound(r) ==
    IF r.tag = "Err"
    THEN r.error.err = "LocalVariableReferencedBeforeAssignment"
    ELSE FALSE

\* C5: a read of a module slot or of a local slot that has never been
\* assigned returns the unbound-variable error, and no value.
C5_UnassignedReadFails ==
    /\ (last_op.name = "get_slot_module" => 
            (ModuleSlotUnassigned(last_op.slot) => IsUnbound(ret)))
    /\ (last_op.name = "get_slot_local" =>
            (local_variables[Len(local_variables)][last_op.slot] = None
                => IsUnbound(ret)))
\* Inside a function of the frozen module, module slot 1 was read: the frozen
\* module has not assigned it, the bound module has.
C5_Witness ==
    /\ last_op = [name |-> "get_slot_module", slot |-> 1]
    /\ module_variables = Some("lib")
    /\ module_env[1] # None
    /\ IsUnbound(ret)

\* C6: with no override get_slot_module returns what the bound module's slot
\* holds, and with an override what the frozen module's slot holds, as a
\* frozen value; whether the slot is assigned in the other table makes no
\* difference.
C6_ReadsResolutionTarget ==
    last_op.name = "get_slot_module" =>
        IF module_variables = None
        THEN IF module_env[last_op.slot] = None
             THEN ret.tag = "Err"
             ELSE ret = Ok(module_env[last_op.slot].val)
        ELSE LET fv == FrozenModule_get_slot(module_variables.val, last_op.slot)
             IN  IF fv = None
                 THEN ret.tag = "Err"
                 ELSE ret = Ok([v |-> fv.val.fv, frozen |-> TRUE])
\* Module slot 0 was read inside a function of the frozen module, after the
\* bound module's slot 0 was assigned: the frozen module's value came back.
C6_Witness ==
    /\ last_op = [name |-> "get_slot_module", slot |-> 0]
    /\ module_variables = Some("lib")
    /\ module_env[0] = Some(Value_new(1))
    /\ ret = Ok([v |-> 10, frozen |-> TRUE])

\* This step is a collection.
GcStep == last_op'.name = "garbage_collect" /\ ctl' = ctl

\* C7: enable_profile leaves profiling and disable_gc set; while profiling is
\* set disable_gc is set, profiling stays set, and no step is a collection,
\* whatever trigger_gc, disable_gc, enable_stmt_profile and calls follow.
C7_ProfilingKeepsGcOff ==
    /\ [](last_op.name = "enable_profile" => profiling /\ disable_gc)
    /\ [](profiling => disable_gc)
    /\ [][profiling => profiling' /\ ~GcStep]_vars
\* After enable_profile a collection was triggered inside a call and the heap
\* grew past GC_THRESHOLD; the allocation was the last thing that happened.
C7_Witness ==
    /\ profiling /\ disable_gc
    /\ next_gc_level = 0
    /\ allocated_bytes > GC_THRESHOLD
    /\ call_stack # << >>
    /\ last_op.name = "alloc"

\* C8: no step takes disable_gc from true to false.
C8_DisableGcIsPermanent == [][disable_gc => disable_gc']_vars
\* disable_gc was called without profiling, and trigger_gc after it, with the
\* heap at the watermark it had: GC is still disabled.
C8_Witness ==
    /\ disable_gc /\ ~profiling
    /\ last_op.name = "trigger_gc"
    /\ next_gc_level = 0
    /\ allocated_bytes >= GC_THRESHOLD

\* C9: a collection happens only with disable_gc false and the allocated
\* bytes at or above the watermark; the watermark is zero only after a
\* manual trigger; and a collection sets the watermark to the bytes that are
\* live after it plus GC_THRESHOLD.
C9_CollectionPolicy ==
    /\ [](next_gc_level = 0 \/ next_gc_level >= GC_THRESHOLD)
    /\ [][(next_gc_level # 0 /\ next_gc_level' = 0) => last_op'.name = "trigger_gc"]_vars
    /\ [][GcStep => /\ ~disable_gc
                    /\ allocated_bytes >= next_gc_level
                    /\ next_gc_level' = allocated_bytes' + GC_THRESHOLD]_vars
\* A collection has just run and left some bytes live.
C9_Witness ==
    /\ last_op.name = "garbage_collect"
    /\ allocated_bytes > 0
    /\ next_gc_level = allocated_bytes + GC_THRESHOLD

\* C10: write_profile returns ProfilingNotEnabled exactly when profiling is
\* not set; profiling is set by enable_profile, by nothing else, and is never
\* cleared.
C10_WriteProfileNeedsEnable ==
    /\ [](last_op.name = "write_profile" =>
            (ret = Err(EvaluatorError_ProfilingNotEnabled, << >>) <=> ~profiling))
    /\ [](last_op.name = "enable_profile" => profiling)
    /\ [][profiling' # profiling => profiling' /\ last_op'.name = "enable_profile"]_vars
\* write_profile failed after enable_stmt_profile and disable_gc, without
\* enable_profile.
C10_Witness ==
    /\ last_op.name = "write_profile"
    /\ ~profiling /\ stmt_profile.enabled /\ disable_gc
    /\ ret = Err(EvaluatorError_ProfilingNotEnabled, << >>)

\* C11: write_stmt_profile returns StmtProfilingNotEnabled whenever the
\* statement profiler is not enabled, whether or not profiling is set; the
\* statement profiler is enabled by enable_stmt_profile and by nothing else.
C11_WriteStmtProfileNeedsEnable ==
    /\ [](last_op.name = "write_stmt_profile" /\ ~stmt_profile.enabled =>
            ret = Err(EvaluatorError_StmtProfilingNotEnabled, << >>))
    /\ [](last_op.name = "enable_stmt_profile" => stmt_profile.enabled)
    /\ [][stmt_profile'.enabled # stmt_profile.enabled =>
            stmt_profile'.enabled /\ last_op'.name = "enable_stmt_profile"]_vars
\* write_stmt_profile failed after enable_profile, without enable_stmt_profile.
C11_Witness ==
    /\ last_op.name = "write_stmt_profile"
    /\ profiling /\ ~stmt_profile.enabled
    /\ ret = Err(EvaluatorError_StmtProfilingNotEnabled, << >>)

\* These steps are enable_stmt_profile and enable_profile.
EnableStmtProfileStep == before_stmt' = before_stmt + 1
EnableProfileStep == last_op'.name = "enable_profile" /\ ctl' = ctl

\* C12: enable_stmt_profile leaves disable_gc and profiling as they are, and
\* enable_profile leaves the statement profiler and its hooks as they are.
C12_ProfilersIndependent ==
    /\ [][EnableStmtProfileStep =>
            disable_gc' = disable_gc /\ profiling' = profiling]_vars
    /\ [][EnableProfileStep =>
            stmt_profile' = stmt_profile /\ before_stmt' = before_stmt]_vars
\* The statement profiler has just been enabled; GC is enabled and the call
\* profiler is off.
C12_Witness ==
    /\ last_op.name = "enable_stmt_profile"
    /\ stmt_profile.enabled /\ ~disable_gc /\ ~profiling

\* The state Evaluator::new returns: nothing has been called and no
\* invocation is open.
Fresh == last_op = NoOp /\ ctl = << >>

\* C17: a newly constructed Evaluator has no override, GC enabled, profiling
\* off, no loader, an empty call stack and the watermark at GC_THRESHOLD.
C17_FreshEvaluator ==
    Fresh =>
        /\ module_variables = None
        /\ ~disable_gc
        /\ ~profiling
        /\ loader = None
        /\ call_stack = << >>
        /\ next_gc_level = GC_THRESHOLD
\* The Evaluator as constructed.
C17_Witness ==
    /\ Fresh /\ ret = NoRet
    /\ loader = None /\ ~disable_gc /\ ~profiling
    /\ next_gc_level = GC_THRESHOLD

\* C13, as claimed: walk shows the tracer every assigned slot of the bound
\* module, every assigned slot of every frame of locals, the called value of
\* every frame of the call stack, and so every value that can be read
\* through the Evaluator, the one in extra_v included.
C13_Original_WalkShowsEveryValue ==
    last_op.name = "walk" =>
        /\ \A s \in ModuleSlotIds : module_env[s] # None =>
              Root("module_env", 0, s, module_env[s].val) \in last_op.walker
        /\ \A i \in DOMAIN local_variables : \A s \in LocalSlotIds :
              local_variables[i][s] # None =>
                 Root("local_variables", i, s, local_variables[i][s].val)
                     \in last_op.walker
        /\ \A i \in DOMAIN call_stack :
              Root("call_stack", i, 0, [function |-> call_stack[i].function])
                  \in last_op.walker
        /\ (extra_v # None => \E r \in last_op.walker : r.in = "extra_v")

\* C13, amended: walk shows the tracer every assigned slot of the bound
\* module, every assigned slot of every frame of locals (not only the top
\* one) and the called value of every frame of the call stack, and nothing
\* else: a value held in extra_v is not shown.
C13_WalkShowsSlotsLocalsAndCalls ==
    last_op.name = "walk" =>
        /\ \A s \in ModuleSlotIds : module_env[s] # None =>
              Root("module_env", 0, s, module_env[s].val) \in last_op.walker
        /\ \A i \in DOMAIN local_variables : \A s \in LocalSlotIds :
              local_variables[i][s] # None =>
                 Root("local_variables", i, s, local_variables[i][s].val)
                     \in last_op.walker
        /\ \A i \in DOMAIN call_stack :
              Root("call_stack", i, 0, [function |-> call_stack[i].function])
                  \in last_op.walker
        /\ \A r \in last_op.walker :
              r.in \in {"module_env", "local_variables", "call_stack"}
\* walk ran with a module slot assigned, two frames of locals whose lower
\* frame has a slot assigned, two calls open and a value in extra_v.
C13_Witness ==
    /\ last_op.name = "walk"
    /\ module_env[0] # None
    /\ Len(local_variables) = 2 /\ local_variables[1][0] # None
    /\ Len(call_stack) = 2
    /\ extra_v # None
    /\ Cardinality(last_op.walker) = 4

\* This step is the part of with_call_stack before `within`, the push done.
CallEnterStep == Len(ctl') = Len(ctl) + 1 /\ ctl'[Len(ctl')].kind = "call"
\* This step is a with_call_stack whose push failed.
PushFailedStep == last_op'.name = "with_call_stack" /\ ctl' = ctl
\* The enter records of rs that no later exit record closes (their functions,
\* outermost first), and the number of exit records with no enter to close.
RECURSIVE Nesting(_)
Nesting(rs) ==
    IF rs = << >> THEN [open |-> << >>, orphans |-> 0]
    ELSE LET n == Nesting(Pop(rs))
             r == rs[Len(rs)]
         IN  IF r.rec = "enter" THEN [n EXCEPT !.open = Append(n.open, r.function)]
             ELSE IF r.rec # "exit" THEN n
             ELSE IF n.open = << >> THEN [n EXCEPT !.orphans = n.orphans + 1]
             ELSE [n EXCEPT !.open = Pop(n.open)]

\* C14: with profiling set, with_call_stack appends an enter record of the
\* called value in the step that pushes the frame (so before `within`), and
\* an exit record in the step that pops it, whether `within` gave Ok or Err.
\* When profiling was set before the outermost call, the enter records still
\* open are those of the frames on the call stack, in order, and no exit
\* record lacks its enter: once the outermost call returned, all is closed.
C14_EnterExitNested ==
    /\ [][CallEnterStep /\ profiling =>
            /\ Pop(call_stack') = call_stack
            /\ heap_records' = Append(heap_records,
                   [rec |-> "enter", function |-> call_stack'[Len(call_stack')].function])]_vars
    /\ [][CallExitStep /\ profiling =>
            /\ call_stack' = CallStack_pop(call_stack)
            /\ heap_records' = Append(heap_records, [rec |-> "exit"])]_vars
    /\ [](profile_start = Some(0) =>
            /\ Nesting(heap_records).orphans = 0
            /\ Nesting(heap_records).open =
                   [i \in 1 .. Len(call_stack) |-> call_stack[i].function])
\* f called g under the profiler, g failed, and both calls have returned.
C14_Witness ==
    /\ profile_start = Some(0)
    /\ ctl = << >> /\ call_stack = << >>
    /\ last_op = [name |-> "with_call_stack", function |-> "f"]
    /\ ret.tag = "Err"
    /\ heap_records = << [rec |-> "enter", function |-> "f"],
                         [rec |-> "enter", function |-> "g"],
                         [rec |-> "exit"], [rec |-> "exit"] >>

\* C16: a with_call_stack whose push fails on the recursion limit returns
\* the stack-overflow failure with no call stack attached, starts no
\* `within`, and leaves the call stack and the profiler's records as they
\* were; the call stack never grows past the limit.
C16_OverflowLeavesNoTrace ==
    /\ [][PushFailedStep =>
            /\ CallStack_push_fails(call_stack)
            /\ ret' = Err(StackOverflow, << >>)
            /\ call_stack' = call_stack
            /\ heap_records' = heap_records]_vars
    /\ [][CallStack_push_fails(call_stack) => ~CallEnterStep]_vars
    /\ [](Len(call_stack) <= MAX_CALLSTACK_RECURSION)
\* The profiler is on, the stack is at the limit, and one more call failed.
C16_Witness ==
    /\ last_op.name = "with_call_stack"
    /\ ret = Err(StackOverflow, << >>)
    /\ profiling
    /\ Len(call_stack) = MAX_CALLSTACK_RECURSION
    /\ Len(heap_records) = Len(call_stack)

\* This step installs or removes a module-variable override.
ContextStep == Len(ctl') # Len(ctl) /\ module_variables' # module_variables
ModuleWrites == {"set_slot_module", "set_module_variable_at_some_point"}

\* C18, as claimed: while a module-variable override is active no step
\* modifies the slots of the bound module.
C18_Original_BoundSlotsFrozenUnderOverride ==
    [][module_variables # None => module_env' = module_env]_vars

\* C18, amended: installing and removing an override leaves the slots of the
\* bound module as they were, and while the override stays every read of a
\* module slot gives what the frozen module holds, whatever is written; but
\* set_slot_module and set_module_variable_at_some_point assign the slot of
\* the bound module also while an override is active, and one slot only.
C18_OverrideLeavesBoundSlots ==
    /\ [][ContextStep => module_env' = module_env]_vars
    /\ [][module_variables # None /\ module_variables' = module_variables =>
            \A s \in ModuleSlotIds :
               /\ get_slot_module_result(s)' = get_slot_module_result(s)
               /\ get_slot_module_result(s) =
                     ok_or_else(map_new_frozen(
                                    FrozenModule_get_slot(module_variables.val, s)),
                                get_slot_module_error(s))]_vars
    /\ [][module_env' # module_env =>
            /\ last_op'.name \in ModuleWrites
            /\ \A s \in ModuleSlotIds \ {last_op'.slot} : module_env'[s] = module_env[s]]_vars
    /\ [](last_op.name \in ModuleWrites => module_env[last_op.slot] # None)
\* Under an override a write has assigned slot 1 of the bound module, which
\* the frozen module leaves unassigned: the read of slot 1 still fails.
C18_Witness ==
    /\ module_variables = Some("lib")
    /\ last_op = [name |-> "set_slot_module", slot |-> 1]
    /\ module_env[1] # None /\ module_env[0] = None
    /\ get_slot_module_result(1).tag = "Err"

\* The names of the frames of cs, the innermost (pushed last) first.
InnermostFirst(cs) == [i \in 1 .. Len(cs) |-> cs[Len(cs) + 1 - i].function]
FrameNames(frames) == [i \in 1 .. Len(frames) |-> frames[i].name]

\* C19: the frames Evaluator::call_stack returns are those of the call
\* stack, the innermost first; and the frames that with_call_stack attaches
\* to a failure that has none are those of the call stack at that moment
\* (the failing call's frame still on it), the innermost first.
C19_InnermostFirst ==
    /\ [](last_op.name = "call_stack" =>
            FrameNames(ret.val.frames) = InnermostFirst(call_stack))
    /\ [][CallExitStep /\ Top.res.tag = "Err" =>
            IF Top.res.call_stack = << >>
            THEN /\ FrameNames(ret'.call_stack) = InnermostFirst(call_stack)
                 /\ ret'.call_stack[1].name = Top.function
            ELSE ret'.call_stack = Top.res.call_stack]_vars
\* Inside g, called from f, the export lists g, then f.
C19_Witness ==
    /\ last_op.name = "call_stack"
    /\ Len(call_stack) = 2
    /\ call_stack[1].function = "f" /\ call_stack[2].function = "g"
    /\ FrameNames(ret.val.frames) = << "g", "f" >>

\* The call path of the enter record at position i of rs.
PathOfEnter(rs, i) == Nesting(SubSeq(rs, 1, i)).open
Enters(rs) == {i \in DOMAIN rs : rs[i].rec = "enter"}

\* C20: the flame graph has one line for every call path that was entered
\* and no two lines with the same path; the weight of a line is the number
\* of calls made with that path, so two calls of g from the same call of f
\* give the one line f;g with weight 2.
C20_FlameCollapsesEqualPaths ==
    last_op = [name |-> "gen", format |-> HeapProfileFormat_FlameGraph] /\ ret # None =>
        /\ ret.val.format = "flame"
        /\ \A i, j \in DOMAIN ret.val.lines :
              ret.val.lines[i].path = ret.val.lines[j].path => i = j
        /\ \A i \in DOMAIN ret.val.lines :
              ret.val.lines[i].weight =
                 Cardinality({e \in Enters(heap_records) :
                                 PathOfEnter(heap_records, e) = ret.val.lines[i].path})
        /\ \A e \in Enters(heap_records) : \E i \in DOMAIN ret.val.lines :
              ret.val.lines[i].path = PathOfEnter(heap_records, e)
\* f called g twice; the flame graph has the lines f (weight 1) and f;g
\* (weight 2).
C20_Witness ==
    /\ last_op = [name |-> "gen", format |-> HeapProfileFormat_FlameGraph]
    /\ heap_records = << [rec |-> "enter", function |-> "f"],
                         [rec |-> "enter", function |-> "g"], [rec |-> "exit"],
                         [rec |-> "enter", function |-> "g"], [rec |-> "exit"],
                         [rec |-> "exit"] >>
    /\ ret = Some([format |-> "flame",
                   lines |-> << [path |-> << "f" >>, weight |-> 1],
                                [path |-> << "f", "g" >>, weight |-> 2] >>])

\* The enter records of rs whose called value is f.
EntersOf(rs, f) == {i \in Enters(rs) : rs[i].function = f}
SummaryAsked == last_op = [name |-> "gen", format |-> HeapProfileFormat_Summary]

\* C21: with the profiler enabled the summary has a row for exactly the
\* functions that were called, with the number of their calls; so after one
\* call of one function it is not empty and has one row, for that function,
\* with count 1.
C21_SummaryOfOneCall ==
    SummaryAsked /\ profiling =>
        /\ ret # None
        /\ ret.val.format = "summary"
        /\ \A f \in Functions :
              IF EntersOf(heap_records, f) = {}
              THEN \A row \in ret.val.rows : row.function # f
              ELSE [function |-> f, count |-> Cardinality(EntersOf(heap_records, f))]
                      \in ret.val.rows
        /\ \A f \in Functions :
              heap_records = << [rec |-> "enter", function |-> f], [rec |-> "exit"] >> =>
                 ret.val.rows = {[function |-> f, count |-> 1]}
\* The profiler was enabled, g ran once, and the summary was asked for.
C21_Witness ==
    /\ SummaryAsked
    /\ profile_start = Some(0)
    /\ ctl = << >>
    /\ heap_records = << [rec |-> "enter", function |-> "g"], [rec |-> "exit"] >>
    /\ ret = Some([format |-> "summary", rows |-> {[function |-> "g", count |-> 1]}])

RECURSIVE SumOver(_, _)
SumOver(seq, field) ==
    IF seq = << >> THEN 0 ELSE seq[1][field] + SumOver(Tail(seq), field)
RowCount(rows, f) == IF \E row \in rows : row.function = f
                     THEN (CHOOSE row \in rows : row.function = f).count ELSE 0
\* The heap holds a value allocated outside every call, before the first
\* call or after the last one has returned.
ValueOutsideCalls ==
    \E i \in DOMAIN heap_records :
        heap_records[i].rec = "value" /\ PathOfEnter(heap_records, i) = << >>

\* C22: with the profiler enabled, generating the summary or the flame graph
\* gives an output of the format asked for, whatever the heap holds: no
\* record at all, the records of finished or of open calls, and values
\* allocated before, between and after them; the values count as no call.
C22_ProfilesGenerated ==
    last_op.name = "gen" /\ profiling =>
        /\ ret # None
        /\ IF last_op.format = HeapProfileFormat_FlameGraph
           THEN /\ ret.val.format = "flame"
                /\ SumOver(ret.val.lines, "weight") = Cardinality(Enters(heap_records))
           ELSE /\ ret.val.format = "summary"
                /\ \A f \in Functions :
                      RowCount(ret.val.rows, f) = Cardinality(EntersOf(heap_records, f))
\* A value was allocated, f ran once under the profiler, another value was
\* allocated, and the flame graph was generated.
C22_Witness ==
    /\ last_op = [name |-> "gen", format |-> HeapProfileFormat_FlameGraph]
    /\ profile_start = Some(0) /\ ctl = << >>
    /\ heap_records = << [rec |-> "value"], [rec |-> "enter", function |-> "f"],
                         [rec |-> "exit"], [rec |-> "value"] >>
    /\ ValueOutsideCalls
    /\ ret = Some([format |-> "flame", lines |-> << [path |-> << "f" >>, weight |-> 1] >>])

\* The functions of the with_call_stack invocations that are open.
OpenCallFunctions == [i \in 1 .. Cardinality(OpenCalls) |->
                         ctl[CHOOSE j \in OpenCalls :
                                Cardinality({k \in OpenCalls : k <= j}) = i].function]

\* C23: a with_call_stack whose `within` gave Ok(v) returns Ok(v), v as it
\* was produced, and pops its own frame; the frames on the call stack are at
\* all times those of the open invocations, so the stack is left as the call
\* found it.  f(41), with f's body returning its local slot 0 plus one,
\* returns 42, and with no call open the stack is empty.
C23_SuccessReturnsValue ==
    /\ [][CallExitStep /\ Top.res.tag = "Ok" =>
            ret' = Top.res /\ call_stack' = Pop(call_stack)]_vars
    /\ []([i \in 1 .. Len(call_stack) |-> call_stack[i].function] = OpenCallFunctions)
    /\ [](last_op.name = "with_call_stack" /\ ret.tag = "Ok" =>
            ret = Ok(Value_new(ScenarioArgument + 1)))
\* f(41) was called from an empty stack and has returned 42.
C23_Witness ==
    /\ last_op = [name |-> "with_call_stack", function |-> "f"]
    /\ ret = Ok(Value_new(42))
    /\ ctl = << >> /\ call_stack = << >>

\* This step is a trigger_gc.
TriggerGcStep == last_op'.name = "trigger_gc" /\ ctl' = ctl

\* C24: trigger_gc sets next_gc_level to zero and leaves every other field
\* as it was: disable_gc, profiling and the statement profiler, the call
\* stack, the slots, the override, the codemap, and the heap; and while
\* disable_gc is set no step collects, after a trigger_gc as before.
C24_TriggerOnlyLowersWatermark ==
    /\ [][TriggerGcStep =>
            /\ next_gc_level' = 0
            /\ UNCHANGED << disable_gc, profiling, stmt_profile, before_stmt,
                            call_stack, module_env, local_variables,
                            module_variables, codemap, allocated_bytes,
                            heap_records, loader, extra_v >>]_vars
    /\ [][disable_gc => ~GcStep /\ allocated_bytes' >= allocated_bytes]_vars
\* trigger_gc ran with GC disabled, inside a call under an override, with
\* slots assigned and bytes on the heap over the watermark.
C24_Witness ==
    /\ last_op.name = "trigger_gc"
    /\ disable_gc /\ next_gc_level = 0 /\ allocated_bytes > 0
    /\ module_variables = Some("lib") /\ codemap = "a.bzl"
    /\ call_stack # << >>
    /\ module_env[0] # None

\* This step is the part of with_function_context before `within`.
ContextEnterStep == Len(ctl') = Len(ctl) + 1 /\ ctl'[Len(ctl')].kind = "ctx"

\* C25: with_function_context(module, codemap, within) makes codemap the
\* active codemap and module the override (None for None) before `within`
\* starts, whatever override and codemap its caller had; and as long as its
\* `within` is the running code, they are what is active.
C25_CalleeContextInstalled ==
    /\ [][ContextEnterStep =>
            /\ codemap' = ctl'[Len(ctl')].codemap
            /\ module_variables' = ctl'[Len(ctl')].module
            /\ ctl'[Len(ctl')].res = Pending]_vars
    /\ [](ctl # << >> =>
            (Top.kind = "ctx" /\ Top.res = Pending =>
                codemap = Top.codemap /\ module_variables = Top.module))
\* Inside a function of the frozen module a function of the top module is
\* running: no override is active, and its codemap is.
C25_Witness ==
    /\ Len(ctl) = 2
    /\ ctl[1].kind = "ctx" /\ ctl[1].module = Some("lib") /\ ctl[1].codemap = "a.bzl"
    /\ ctl[2].kind = "ctx" /\ ctl[2].module = None /\ ctl[2].codemap = "b.bzl"
    /\ ctl[2].res = Pending
    /\ ctl[2].old_module_variables = Some("lib")
    /\ module_variables = None /\ codemap = "b.bzl"

\* C26: a get_slot_module that fails reports the name that the table of the
\* read's resolution target has for the slot: the frozen module's table
\* under an override, the bound module's without; and "<unknown>" when that
\* table has no name for the slot.  A read that succeeds returns the value
\* and no name.
C26_NameFromResolutionTarget ==
    last_op.name = "get_slot_module" =>
        IF ret.tag = "Err"
        THEN LET table == IF module_variables = None
                          THEN Module_names_get_slot(last_op.slot)
                          ELSE FrozenModule_get_slot_name(module_variables.val,
                                                          last_op.slot)
             IN  /\ ret.error.err = "LocalVariableReferencedBeforeAssignment"
                 /\ table # None => ret.error.name = table.val
                 /\ table = None => ret.error.name = "<unknown>"
                 /\ ret.call_stack = << >>
        ELSE ret.tag = "Ok" /\ DOMAIN ret = {"tag", "val"}
\* Under an override slot 1 was read and the frozen module's name for it is
\* reported, where the bound module has no name for slot 1.
C26_Witness ==
    /\ last_op = [name |-> "get_slot_module", slot |-> 1]
    /\ module_variables = Some("lib")
    /\ Module_names_get_slot(1) = None
    /\ ret = Err(LocalVariableReferencedBeforeAssignment("lib_y"), << >>)
\* With no override slot 1, which the bound module has no name for, was read
\* before it was assigned.
C26_WitnessUnknown ==
    /\ last_op = [name |-> "get_slot_module", slot |-> 1]
    /\ module_variables = None
    /\ ret = Err(LocalVariableReferencedBeforeAssignment("<unknown>"), << >>)

Exits(rs) == {i \in DOMAIN rs : rs[i].rec = "exit"}

\* C28, as claimed: the heap never holds more exit records than enter
\* records, also when profiling is switched on inside `within`.
C28_Original_ExitsNeverExceedEnters ==
    Cardinality(Exits(heap_records)) <= Cardinality(Enters(heap_records))
\* Profiling was switched on inside the `within` of a call of f, and f has
\* returned: the heap holds the exit record of a call that has no enter
\* record.
C28_Witness ==
    /\ profile_start = Some(1)
    /\ ctl = << >>
    /\ last_op = [name |-> "with_call_stack", function |-> "f"]
    /\ heap_records = << [rec |-> "exit"] >>
    /\ Nesting(heap_records).orphans = 1

\* This step is a receive that took a message from the channel.
ReceivedStep == Len(receiver') = Len(receiver) - 1

\* C29: every id has at most one stored response, which is never replaced:
\* a receive that gets a response for an id that has one fails with
\* DuplicateResponse, naming the new and the stored response, and changes
\* neither responses nor notifications; a receive that gets a request fails
\* with ReceivedRequest and changes neither; and responses changes only by
\* a receive storing the response it got under that response's id.
C29_OneResponsePerId ==
    /\ [][ReceivedStep /\ Head(receiver).kind = "Response" =>
            IF responses[Head(receiver).id] # None
            THEN /\ ret' = Err(TestServerError_DuplicateResponse(
                                   Head(receiver), responses[Head(receiver).id].val),
                               << >>)
                 /\ UNCHANGED << responses, notifications >>
            ELSE /\ responses' = [responses EXCEPT ![Head(receiver).id] =
                                                       Some(Head(receiver))]
                 /\ UNCHANGED notifications]_vars
    /\ [][ReceivedStep /\ Head(receiver).kind = "Request" =>
            /\ ret' = Err(TestServerError_ReceivedRequest(Head(receiver)), << >>)
            /\ UNCHANGED << responses, notifications >>]_vars
    /\ [][\A id \in RequestIds :
            /\ responses[id] # None => responses'[id] = responses[id]
            /\ responses'[id] # responses[id] =>
                  ReceivedStep /\ Head(receiver).id = id]_vars
\* A second, different response for id 1 arrived: receive failed and the
\* first response is still the stored one.
C29_Witness ==
    /\ last_op = [name |-> "receive"]
    /\ ret.tag = "Err" /\ ret.error.err = "DuplicateResponse"
    /\ ret.error.new.id = 1 /\ ret.error.new # ret.error.existing
    /\ responses[1] = Some(ret.error.existing)
    /\ ret.error.existing = Response(1, Some("value"), None)

\* The result is an error of receive, passed on by the `?`.
ReceiveFailed(r) ==
    /\ r.tag = "Err"
    /\ r.error.err \in {"RecvTimeoutError", "ReceivedRequest", "DuplicateResponse"}
\* What a response stands for: its result deserialized, its error, or
\* InvalidResponse when it has neither or both.
OutcomeOf(id, msg) ==
    IF msg.error = None /\ msg.result # None
    THEN from_value(msg.result.val)
    ELSE IF msg.error # None /\ msg.result = None
    THEN Err(TestServerError_ResponseError(msg.error.val), << >>)
    ELSE Err(TestServerError_InvalidResponse(id, msg), << >>)
IsPrefix(s, t) == Len(s) <= Len(t) /\ SubSeq(t, 1, Len(s)) = s

\* C30, as claimed: whenever the response for id is in responses, also
\* when an earlier receive stored it before get_response(id) was called,
\* get_response(id) does not return the timeout of receive.
C30_Original_SeenResponseReturned ==
    \A id \in RequestIds :
        last_op = [name |-> "get_response", id |-> id] /\ responses[id] # None
            => ret # Err(RecvTimeoutError, << >>)
\* C30, the part the code keeps: unless receive failed, get_response(id)
\* returns the outcome of the response stored under id, and of no other;
\* while it waits, a notification that arrives goes to the back of
\* notifications and a first response for any id is stored under that id;
\* notifications only grows at its back.
C30_ResponseOfRequestedId ==
    /\ [](last_op.name = "get_response" /\ ~ReceiveFailed(ret) =>
            /\ responses[last_op.id] # None
            /\ ret = OutcomeOf(last_op.id, responses[last_op.id].val))
    /\ [][client.op = "get_response" /\ ReceivedStep =>
            /\ Head(receiver).kind = "Notification" =>
                  /\ notifications' = Append(notifications, Head(receiver))
                  /\ UNCHANGED responses
            /\ Head(receiver).kind = "Response" =>
                  /\ responses'[Head(receiver).id] # None
                  /\ responses[Head(receiver).id] = None =>
                        responses'[Head(receiver).id] = Some(Head(receiver))
                  /\ \A id \in RequestIds \ {Head(receiver).id} :
                        responses'[id] = responses[id]
                  /\ UNCHANGED notifications]_vars
    /\ [][IsPrefix(notifications, notifications')]_vars
\* The response for id 1 was stored by a receive, the channel is empty,
\* and get_response(1) returned the timeout.
C30_Witness ==
    /\ last_op = [name |-> "get_response", id |-> 1]
    /\ ret = Err(RecvTimeoutError, << >>)
    /\ responses[1] = Some(Response(1, Some("value"), None))
    /\ receiver = << >>
\* get_response(1) waited while a notification and the response for id 2
\* arrived, and returned the result of the response for id 1.
C30_WitnessKept ==
    /\ last_op = [name |-> "get_response", id |-> 1]
    /\ ret = Ok([t |-> "value"])
    /\ responses[2] = Some(Response(2, None, Some("error")))
    /\ notifications = << Notification("logMessage") >>

\* This step is one round of the loop of get_notification.
NotificationRound == client.op = "get_notification" /\ client' # client
\* The queue of notifications after the receive of this round.
QueueAfterReceive ==
    IF receiver # << >> /\ Head(receiver).kind = "Notification"
    THEN Append(notifications, Head(receiver))
    ELSE notifications
\* C31: a round of get_notification for a method whose receive got a
\* message takes the earliest queued notification of that method out of
\* the queue, returns its parameters and leaves the others in their order;
\* with none queued it takes nothing, and goes round again or, in the
\* tenth round, fails; a round whose receive timed out fails with that
\* error; a call never does more than ten rounds, each with one receive.
C31_EarliestNotificationTaken ==
    /\ [](client.op = "get_notification" => client.round < GetNotificationRetries)
    /\ [][NotificationRound /\ receiver # << >> /\ Head(receiver).kind # "Request" =>
            LET q == QueueAfterReceive
                matching == {i \in 1..Len(q) : q[i].method = client.method}
            IN IF matching # {}
               THEN \E i \in matching :
                       /\ \A j \in matching : i <= j
                       /\ notifications' =
                              [k \in 1..(Len(q) - 1) |-> IF k < i THEN q[k] ELSE q[k + 1]]
                       /\ ret' = from_value(q[i].params)
                       /\ client'.op = "idle"
               ELSE /\ notifications' = q
                    /\ IF client.round = GetNotificationRetries - 1
                       THEN /\ ret' = Err(NoNotificationError(client.method), << >>)
                            /\ client'.op = "idle"
                       ELSE /\ client' = [client EXCEPT !.round = client.round + 1]
                            /\ UNCHANGED ret]_vars
    /\ [][NotificationRound /\ receiver = << >> =>
            /\ ret' = Err(RecvTimeoutError, << >>)
            /\ client'.op = "idle"
            /\ UNCHANGED notifications]_vars
\* get_notification for publishDiagnostics returned the parameters of the
\* earlier of two queued notifications of that method: the later one, whose
\* parameters differ, is still queued between the two of the other method.
C31_Witness ==
    /\ last_op = [name |-> "get_notification", method |-> "publishDiagnostics"]
    /\ ret = Ok([t |-> "value"])
    /\ notifications = << Notification("logMessage"),
                          Notification_new("publishDiagnostics", "null"),
                          Notification("logMessage") >>
\* get_notification for publishDiagnostics received ten notifications of
\* the other method and failed.
C31_WitnessRetries ==
    /\ last_op = [name |-> "get_notification", method |-> "publishDiagnostics"]
    /\ ret = Err(NoNotificationError("publishDiagnostics"), << >>)
    /\ Len(notifications) = GetNotificationRetries

\* The places of a message in what the client has sent.
SentAt(message) == {i \in 1..Len(sent) : sent[i] = message}
InitializeRequest == Request_new(1, "initialize")
\* new_with_settings has returned.
Constructed(tag) == last_op = [name |-> "new_with_settings"] /\ ret.tag = tag
\* C32: the first thing sent is the Initialize request; the Initialized
\* notification is sent at most once, behind it, and only with a response
\* for the request's id stored that carries a result of the right type
\* and no error; a TestServer that new_with_settings returned has sent
\* both and holds that result in initialize_response; when
\* new_with_settings failed, for an error response, a timeout or another
\* reason, no Initialized notification was sent, then or later.
C32_HandshakeOrder ==
    /\ sent # << >> => sent[1] = InitializeRequest
    /\ Cardinality(SentAt(Notification("initialized"))) <= 1
    /\ SentAt(Notification("initialized")) # {} =>
          /\ SentAt(Notification("initialized")) = {2}
          /\ responses[1] # None
          /\ responses[1].val.error = None
          /\ responses[1].val.result = Some("value")
    /\ Constructed("Ok") =>
          /\ SentAt(Notification("initialized")) = {2}
          /\ initialize_response = Some([t |-> responses[1].val.result.val])
    /\ Constructed("Err") =>
          /\ SentAt(Notification("initialized")) = {}
          /\ initialize_response = None
    /\ client.op = "initialize" => initialize_response = None
\* new_with_settings returned a TestServer: a notification arrived before
\* the response, both handshake messages are sent and the result is kept.
C32_Witness ==
    /\ Constructed("Ok")
    /\ client = [op |-> "idle"]
    /\ sent = << InitializeRequest, Notification("initialized") >>
    /\ initialize_response = Some([t |-> "value"])
    /\ notifications # << >>
\* The Initialize response was an error response: new_with_settings failed,
\* the client is dropped, and no Initialized notification is among what
\* was sent.
C32_WitnessErrorResponse ==
    /\ Constructed("Err")
    /\ ret.error = TestServerError_ResponseError("error")
    /\ client = [op |-> "dropped"]
    /\ sent = << InitializeRequest, Request_new(2, "shutdown"), Notification("exit") >>
\* The Initialize response did not come: new_with_settings failed with the
\* timeout.
C32_WitnessTimeout ==
    /\ Constructed("Err")
    /\ ret.error = RecvTimeoutError
    /\ responses[1] = None
    /\ Len(sent) >= 2

ShutdownRequests == {i \in 1..Len(sent) : sent[i].kind = "Request" /\ sent[i].method = "shutdown"}
\* C33: drop sends the Shutdown request, with the next request id, and, the
\* connection still open, the Exit notification right behind it; when the
\* send of the request fails, drop goes to the join without trying the
\* notification, so an Exit notification is never sent without the Shutdown
\* request before it; each is sent at most once; whichever way it went,
\* drop ends by taking the server thread and joining it, once, and sends
\* nothing after that.
C33_ShutdownThenExit ==
    /\ [][drop_send_request =>
            IF connected
            THEN /\ sent' = Append(sent, Request_new(req_counter + 1, "shutdown"))
                 /\ client' = [op |-> "drop", pc |-> "send_notification"]
            ELSE /\ UNCHANGED sent
                 /\ client' = [op |-> "drop", pc |-> "join"]]_vars
    /\ [][drop_send_notification =>
            /\ sent' = IF connected THEN Append(sent, Notification("exit")) ELSE sent
            /\ client' = [op |-> "drop", pc |-> "join"]]_vars
    /\ [](/\ Cardinality(ShutdownRequests) <= 1
          /\ Cardinality(SentAt(Notification("exit"))) <= 1
          /\ \A i \in SentAt(Notification("exit")) : i - 1 \in ShutdownRequests
          /\ ShutdownRequests # {} => client.op \in {"drop", "dropped"})
    /\ [](/\ joins = (IF client.op = "dropped" THEN 1 ELSE 0)
          /\ server_thread = (IF client.op = "dropped" THEN None ELSE Some("JoinHandle")))
    /\ [][client.op = "dropped" => UNCHANGED << sent, joins, server_thread, client >>]_vars
\* A TestServer that was built is dropped with the server running: both
\* messages are sent, in order, and the thread is joined.
C33_Witness ==
    /\ client = [op |-> "dropped"]
    /\ sent = << InitializeRequest, Notification("initialized"),
                 Request_new(2, "shutdown"), Notification("exit") >>
    /\ joins = 1 /\ server_thread = None
\* The server had ended before the drop: neither message is sent, and the
\* thread is joined.
C33_WitnessAlreadyShutdown ==
    /\ client = [op |-> "dropped"]
    /\ sent = << InitializeRequest, Notification("initialized") >>
    /\ joins = 1 /\ server_thread = None
====
